---- MODULE Spec2Model ----
(***************************************************************************)
(* Daily Distance Report application (djbvts): the PDF report renderer     *)
(* (src/lib/report-pdf.ts), the spreadsheet ingestion pipeline and the     *)
(* record store handlers (src/app/api/reports/data/route.ts), and the      *)
(* report generation handler with its summary                              *)
(* (src/app/api/reports/generate/route.ts).                                *)
(*                                                                         *)
(* Text is modelled as a sequence of one-character strings, so that        *)
(* trimming, matching and formatting are computed character by character.  *)
(* Lengths on a page are in PDF points; where the source's value is not a  *)
(* whole number of points the definition says how it is rounded.           *)
(***************************************************************************)
EXTENDS Integers, Sequences, FiniteSets, TLC

VARIABLES
    \* ---- renderer (report-pdf.ts), one entry per buildReportPdf call
    rpc,          \* position of the call: idle / import / logo / qr / done / rejected
    rrows,        \* the call's rows argument
    rtitleH,      \* doc.heightOfString(titleLine) of the call (font dependent)
    rdoc,         \* the call's PDFDocument: its pages and the cursor doc.y
    rresult,      \* what the returned promise resolved with (the buffer) or Null
    cachedLogo,   \* module-level logo cache
    logoReads,    \* number of fs.readFile calls issued for the logo
    \* ---- parseWorkbook (data/route.ts)
    wpc,          \* position of the parse: idle / scan / returned / threw
    workbook,     \* the tables of the sheets read so far; the last is being scanned
    headerRow,    \* the header row of the sheet, <<>> while it is null
    headerIndex,  \* per sheet, the index from 0 of its header row, -1 before it is found
    columnIndex,  \* per sheet, the column mapping, every column -1 while it is null
    context,      \* the carry-forward attributes
    records,      \* the records of the sheet being scanned
    allRecords,   \* the records of the sheets scanned before
    trace,        \* history: the branch each row read so far took, sheet by sheet
    srcs,         \* history: the row index (from 0) each of records came from
    allSrcs,      \* history: <<sheet, row index>> each of allRecords came from
    \* ---- the record store and its handlers (data/route.ts: POST, PATCH, DELETE)
    reports,      \* the Report table: a set of records, each with its id
    snapshots,    \* the UploadSnapshot table
    nextId,       \* the next fresh Report id
    nextCode,     \* the next fresh snapshot code (randomBytes)
    upc,          \* position of the upload in persistRows: idle / first / rest / refresh
    upRows,       \* its rows argument
    upDone,       \* how many of them its committed transactions have upserted
    upCode,       \* its snapshotCode
    upFile,       \* its fileName, Null for a JSON batch
    ppc,          \* position of the PATCH: idle / update
    pId,          \* its id
    pData,        \* its updateData
    requests,     \* number of requests received
    lastStatus,   \* status of the latest response
    dirtyBatch,   \* history: another request wrote since the upload's latest commit
    dirtyUpload,  \* history: another request wrote since the upload began
    \* ---- one cell pair put through the conversions of data/route.ts
    cpc,          \* position: idle / input / date / done
    dateIn,       \* the report-date cell
    dateOut,      \* normaliseDate of it
    tripsIn,      \* the trip-count cell
    tripsOut,     \* toTripCount of it
    distIn,       \* the trip-distance cell being converted, Null for a missing one
    distOut,      \* toDistanceString of it
    \* ---- one row list given to the renderer's totals and to buildSummary
    tpc,          \* position: idle / input / pdf / done
    trows,        \* the row list
    tcell,        \* the distance cell of the sub-header the renderer draws for it
    tsummary,     \* buildSummary of it
    \* ---- POST /api/reports/generate (generate/route.ts)
    gpc,            \* position of the request: idle / render / create / responded
    grows,          \* the rows findMany returned
    gbuffer,        \* pdfBuffer: the pages buildReportPdf resolved with, <<>> before
    gstatus,        \* status of the response, 0 before it is sent
    pdfGenerations, \* the PdfGeneration table, in order of creation
    grequests,      \* number of requests received
    ginvoked,       \* history: the request called buildReportPdf
    gbase,          \* history: the size of the table when the request came in
    greq,           \* dateFrom, dateTo and the normalised filters of the request
    \* ---- the read side: the generate route's selection and the lookups by code
    fpc,            \* position of a selection: idle / input / selected
    ftable,         \* the Report table the selection reads
    freq,           \* the request of the selection
    ftz,            \* the server's zone, in minutes east of UTC
    frows,          \* the rows selected
    vcode,          \* the code of the last lookup (verify/[code], pdf/[code])
    vstatus,        \* its status, 0 before any
    vsummary,       \* the summary the verify route answered with
    vbytes          \* the bytes the pdf route answered with, <<>> when none

renderVars == <<rpc, rrows, rtitleH, rdoc, rresult, cachedLogo, logoReads>>

parseVars ==
    <<wpc, workbook, headerRow, headerIndex, columnIndex, context, records, allRecords,
      trace, srcs, allSrcs>>

storeVars ==
    <<reports, snapshots, nextId, nextCode, upc, upRows, upDone, upCode, upFile, ppc, pId,
      pData, requests, lastStatus, dirtyBatch, dirtyUpload>>

convertVars == <<cpc, dateIn, dateOut, tripsIn, tripsOut, distIn, distOut>>

totalsVars == <<tpc, trows, tcell, tsummary>>

generateVars ==
    <<gpc, grows, gbuffer, gstatus, pdfGenerations, grequests, ginvoked, gbase, greq>>

readVars == <<fpc, ftable, freq, ftz, frows, vcode, vstatus, vsummary, vbytes>>

vars == <<renderVars, parseVars, storeVars, convertVars, totalsVars, generateVars, readVars>>

\* null and undefined; a one-element sequence, so that it compares with texts and arrays
Null == <<"null">>

Max(a, b) == IF a >= b THEN a ELSE b
Min(a, b) == IF a <= b THEN a ELSE b

(***************************************************************************)
(* Text helpers                                                            *)
(***************************************************************************)
DigitChars == <<"0", "1", "2", "3", "4", "5", "6", "7", "8", "9">>

IsDigit(c) == c \in {"0", "1", "2", "3", "4", "5", "6", "7", "8", "9"}

DigitVal(c) == (CHOOSE i \in 1..10 : DigitChars[i] = c) - 1

IsSpace(c) == c \in {" ", "\t", "\n", "\r"}

\* String(n) for an integer n >= 0
RECURSIVE NatToText(_)
NatToText(n) ==
    IF n < 10 THEN <<DigitChars[n + 1]>>
    ELSE NatToText(n \div 10) \o <<DigitChars[(n % 10) + 1]>>

\* String(n) for any integer
IntToText(n) == IF n < 0 THEN <<"-">> \o NatToText(0 - n) ELSE NatToText(n)

\* String(n).padStart(2, "0") for n >= 0
Pad2(n) == IF n < 10 THEN <<"0">> \o NatToText(n) ELSE NatToText(n)

\* s.padStart(2, "0") for a text s
PadStart2(s) == IF Len(s) < 2 THEN (IF Len(s) = 0 THEN <<"0", "0">> ELSE <<"0">> \o s) ELSE s

\* Array.prototype.slice(start, end) on a 0-based array held as a 1-based sequence
Slice(s, start, end) == SubSeq(s, start + 1, Min(end, Len(s)))

(***************************************************************************)
(* report-pdf.ts: numbers                                                  *)
(***************************************************************************)
\* parseFloat(text): finite with its value in hundredths, or NaN (not finite): leading white space, an optional
\* sign, then digits with an optional fraction; anything after is ignored.
\* Fractions are read to two digits (the inputs of this model carry no more)
\* and exponents and "Infinity" do not occur in them.
RECURSIVE SkipSpaces(_)
SkipSpaces(s) == IF s # <<>> /\ IsSpace(Head(s)) THEN SkipSpaces(Tail(s)) ELSE s

RECURSIVE LeadingDigits(_)
LeadingDigits(s) ==
    IF s # <<>> /\ IsDigit(Head(s)) THEN <<Head(s)>> \o LeadingDigits(Tail(s)) ELSE <<>>

RECURSIVE DigitsToNat(_)
DigitsToNat(ds) ==
    IF ds = <<>> THEN 0
    ELSE DigitsToNat(SubSeq(ds, 1, Len(ds) - 1)) * 10 + DigitVal(ds[Len(ds)])

\* the first two fraction digits, as hundredths
FracCenti(ds) ==
    IF Len(ds) = 0 THEN 0
    ELSE IF Len(ds) = 1 THEN DigitVal(ds[1]) * 10
    ELSE DigitVal(ds[1]) * 10 + DigitVal(ds[2])

parseFloat(text) ==
    LET t    == SkipSpaces(text)
        neg  == t # <<>> /\ Head(t) = "-"
        u    == IF t # <<>> /\ Head(t) \in {"-", "+"} THEN Tail(t) ELSE t
        ip   == LeadingDigits(u)
        r    == SubSeq(u, Len(ip) + 1, Len(u))
        fp   == IF r # <<>> /\ Head(r) = "." THEN LeadingDigits(Tail(r)) ELSE <<>>
        mag  == DigitsToNat(ip) * 100 + FracCenti(fp)
    IN  IF ip = <<>> /\ fp = <<>> THEN [finite |-> FALSE, centi |-> 0]
        ELSE [finite |-> TRUE, centi |-> IF neg THEN 0 - mag ELSE mag]

\* (hundredths).toFixed(2)
ToFixed2(c) ==
    LET a == IF c < 0 THEN 0 - c ELSE c
    IN  (IF c < 0 THEN <<"-">> ELSE <<>>) \o NatToText(a \div 100) \o <<".">> \o Pad2(a % 100)

(***************************************************************************)
(* report-pdf.ts: layout constants                                         *)
(***************************************************************************)
ROWS_PER_PAGE == 21
ROW_HEIGHT_PT == 18
\* mmToPt(297) and mmToPt(241), rounded to whole points
PAGE_WIDTH_PT == 842
BASE_PAGE_HEIGHT_PT == 683
\* margin of the first page (new PDFDocument) and of the added pages (doc.addPage)
FIRST_PAGE_MARGIN == 20
ADDED_PAGE_MARGIN == 24
\* headerHeight of the table header band and subHeaderHeight of the sub-header band
TABLE_HEADER_HEIGHT == 20
SUB_HEADER_HEIGHT == 20
\* qrWithTextHeight = qrSize + 2 + 10
QR_WITH_TEXT_HEIGHT == 152
\* stretchedLogoHeight + 6 = 45 * 1.5 + 6, rounded up to whole points
LOGO_BLOCK_HEIGHT == 74
\* the footer sits 40 points above the bottom margin
FOOTER_OFFSET == 40

NoRow ==
    [vehicleNo |-> <<>>, area |-> <<>>, tankerType |-> <<>>, transporterName |-> <<>>,
     reportDate |-> <<>>, tripDistanceKm |-> <<>>, tripCount |-> 0]

NewPage(pageMargin) ==
    [width |-> PAGE_WIDTH_PT, height |-> BASE_PAGE_HEIGHT_PT, margin |-> pageMargin, ops |-> <<>>]

\* new PDFDocument({size, margin: 20}): one page, the cursor at its top margin
NewDoc == [pages |-> <<NewPage(FIRST_PAGE_MARGIN)>>, y |-> FIRST_PAGE_MARGIN]

\* one draw operation on a page: what is drawn, where (y), and its content
DrawOp(op, y, bg, text, row) == [op |-> op, y |-> y, bg |-> bg, text |-> text, row |-> row]

\* the current page with one more draw operation
Draw(doc, o) ==
    [doc EXCEPT !.pages[Len(doc.pages)].ops = Append(@, o)]

CurrentPage(doc) == doc.pages[Len(doc.pages)]

\* doc.addPage({size, margin: 24})
addPage(doc) == [doc EXCEPT !.pages = Append(@, NewPage(ADDED_PAGE_MARGIN))]

RECURSIVE SumKm(_)
SumKm(rows) ==
    IF rows = <<>> THEN 0
    ELSE LET numericDistance == parseFloat(rows[Len(rows)].tripDistanceKm)
         IN  SumKm(SubSeq(rows, 1, Len(rows) - 1))
             + (IF numericDistance.finite THEN numericDistance.centi ELSE 0)

\* the total is cut to whole kilometres
totalKmWhole(rows) == ToFixed2((SumKm(rows) \div 100) * 100)

\* rows.reduce(...).toFixed(2)
totalKm(rows) == ToFixed2(SumKm(rows))

\* the cell shows the number of rows (String(rows.length))
totalTripsRowCount(rows) == Len(rows)

RECURSIVE totalTrips(_)
totalTrips(rows) ==
    IF rows = <<>> THEN 0
    ELSE totalTrips(SubSeq(rows, 1, Len(rows) - 1)) + rows[Len(rows)].tripCount

totalPagesFloor(rows) == (Len(rows) \div ROWS_PER_PAGE) + 1

totalPages(rows) == Max(1, (Len(rows) + ROWS_PER_PAGE - 1) \div ROWS_PER_PAGE)

\* drawFirstPageHeader: logo, title and QR code from the cursor down; the cursor
\* ends 10 points and a tenth of a line (rounded to 1 point) below the header
drawFirstPageHeader(doc, titleBlockHeight) ==
    LET headerY      == doc.y
        headerHeight == Max(LOGO_BLOCK_HEIGHT + titleBlockHeight, QR_WITH_TEXT_HEIGHT)
        drawn        == Draw(doc, DrawOp("firstPageHeader", headerY, "", <<>>, NoRow))
    IN  [drawn EXCEPT !.y = headerY + headerHeight + 10 + 1]

\* the sub-header band's cells: the first row's attributes and the totals
subHeaderCells(rows) ==
    LET firstRow == IF rows = <<>> THEN NoRow ELSE rows[1]
    IN  [area |-> firstRow.area, vehicleNo |-> firstRow.vehicleNo,
         tankerType |-> firstRow.tankerType, transporterName |-> firstRow.transporterName,
         reportDate |-> <<>>,   \* the requested date range, which the model does not carry
         tripDistanceKm |-> totalKm(rows) \o <<" ", "k", "m">>,
         tripCount |-> totalTrips(rows)]

drawTableHeader(doc, includeSubHeader, rows) ==
    LET currentY == doc.y
        band     == [Draw(doc, DrawOp("tableHeader", currentY, "#2880ba", <<>>, NoRow))
                        EXCEPT !.y = currentY + TABLE_HEADER_HEIGHT]
    IN  IF includeSubHeader
        THEN [Draw(band, DrawOp("subHeader", band.y, "#babae8", <<>>, subHeaderCells(rows)))
                EXCEPT !.y = band.y + SUB_HEADER_HEIGHT]
        ELSE band

rowColorPerPage(globalIndex) ==
    IF (globalIndex % ROWS_PER_PAGE) % 2 = 0 THEN "#ffffff" ELSE "#f5f5f5"

rowColor(globalIndex) == IF globalIndex % 2 = 0 THEN "#ffffff" ELSE "#f5f5f5"

\* drawRows: pageRows.forEach((row, offset) => ...), offset from 0; each row is
\* drawn at currentY, which starts at the cursor and grows by ROW_HEIGHT_PT
drawRows(doc, pageRows, startIndex) ==
    LET currentY(offset) == doc.y + offset * ROW_HEIGHT_PT
        rowOps == [k \in 1..Len(pageRows) |->
                     LET globalIndex == startIndex + (k - 1)
                     IN  DrawOp("row", currentY(k - 1), rowColor(globalIndex),
                                NatToText(globalIndex + 1), pageRows[k])]
    IN  [doc EXCEPT !.pages[Len(doc.pages)].ops = @ \o rowOps,
                    !.y = currentY(Len(pageRows))]

footerTextZeroBased(pageNumber, pages) ==
    <<"P", "a", "g", "e", " ">> \o NatToText(pageNumber - 1) \o <<" ", "o", "f", " ">>
        \o NatToText(pages)

footerText(pageNumber, pages) ==
    <<"P", "a", "g", "e", " ">> \o NatToText(pageNumber) \o <<" ", "o", "f", " ">>
        \o NatToText(pages)

\* drawFooter: at a fixed height above the bottom margin; the cursor is not read
drawFooter(doc, pageNumber, pages) ==
    LET page    == CurrentPage(doc)
        footerY == page.height - page.margin - FOOTER_OFFSET
    IN  Draw(doc, DrawOp("footer", footerY, "", footerText(pageNumber, pages), NoRow))

pageSliceShort(rows, start) == Slice(rows, start, start + ROWS_PER_PAGE - 1)

pageSlice(rows, start) == Slice(rows, start, start + ROWS_PER_PAGE)

includeSubHeaderAlways(isFirstPage, rows) == isFirstPage

includeSubHeader(isFirstPage, rows) == isFirstPage /\ Len(rows) > 0

\* one iteration of the page loop of buildReportPdf
drawPage(doc, rows, titleBlockHeight, pageIndex) ==
    LET isFirstPage == pageIndex = 0
        d0 == IF pageIndex > 0 THEN addPage(doc) ELSE doc
        d1 == IF isFirstPage THEN drawFirstPageHeader(d0, titleBlockHeight)
              ELSE [d0 EXCEPT !.y = CurrentPage(d0).margin]
        d2 == drawTableHeader(d1, includeSubHeader(isFirstPage, rows), rows)
        start == pageIndex * ROWS_PER_PAGE
        d3 == drawRows(d2, pageSlice(rows, start), start)
    IN  drawFooter(d3, pageIndex + 1, totalPages(rows))

\* for (let pageIndex = 0; pageIndex < totalPages; pageIndex++) { ... }
RECURSIVE pageLoop(_, _, _, _)
pageLoop(doc, rows, titleBlockHeight, pageIndex) ==
    IF pageIndex >= totalPages(rows) THEN doc
    ELSE pageLoop(drawPage(doc, rows, titleBlockHeight, pageIndex),
                  rows, titleBlockHeight, pageIndex + 1)

(***************************************************************************)
(* report-pdf.ts: the inputs of a render                                   *)
(***************************************************************************)
\* longest row list given to the renderer
MaxRows == 43

\* kinds of row list: 1 ascending, 2 descending, 3 neither
RowKinds == 1..3

\* doc.heightOfString(titleLine, {width: 300}): one line, two lines, a very long title
TitleHeights == {14, 28, 97}

VehicleTexts == << <<"D", "L", "1", "A">>, <<"D", "L", "2", "B">>, <<"U", "P", "3", "C">> >>

AreaTexts == << <<"N", "o", "r", "t", "h">>, <<"S", "o", "u", "t", "h">> >>

DistanceTexts ==
    << <<"1", "2", ".", "5", "0", " ", "k", "m">>,
       <<"n", "o", "t", " ", "a", " ", "n", "u", "m", "b", "e", "r">>,
       <<"7", ".", "5">>,
       <<"0", " ", "k", "m">> >>

\* the k-th sample row, k >= 1
RowOf(k) ==
    [area            |-> AreaTexts[(k % 2) + 1],
     vehicleNo       |-> VehicleTexts[((k \div 31) % 3) + 1],
     tankerType      |-> <<"T", DigitChars[(k % 3) + 1]>>,
     transporterName |-> <<"X">>,
     reportDate      |-> Pad2(((k - 1) % 31) + 1) \o <<"-", "0", "7", "-", "2", "0", "2", "5">>,
     tripDistanceKm  |-> DistanceTexts[(k % 4) + 1],
     tripCount       |-> k % 3]

MakeRows(n, kind) ==
    [i \in 1..n |-> RowOf(CASE kind = 1 -> i
                            [] kind = 2 -> n + 1 - i
                            [] OTHER    -> ((i * 5) % 7) + 1)]

LogoBytes == <<"image.png">>

(***************************************************************************)
(* report-pdf.ts: buildReportPdf as a process, one step per resumption      *)
(***************************************************************************)
\* buildReportPdf({..., rows, ...}) is called; it suspends at import("pdfkit")
RenderCall(c, n, kind, h) ==
    /\ rpc[c] = "idle"
    /\ rpc' = [rpc EXCEPT ![c] = "import"]
    /\ rrows' = [rrows EXCEPT ![c] = MakeRows(n, kind)]
    /\ rtitleH' = [rtitleH EXCEPT ![c] = h]
    /\ rdoc' = [rdoc EXCEPT ![c] = Null]
    /\ rresult' = [rresult EXCEPT ![c] = Null]
    /\ UNCHANGED <<cachedLogo, logoReads, parseVars, storeVars, convertVars, totalsVars, generateVars, readVars>>

\* the import resolves: the document is created, the totals are computed and
\* loadLogoBuffer() is entered, which returns the cache or starts reading the file
RenderImported(c) ==
    /\ rpc[c] = "import"
    /\ rdoc' = [rdoc EXCEPT ![c] = NewDoc]
    /\ IF cachedLogo # Null
       THEN /\ rpc' = [rpc EXCEPT ![c] = "logoCached"]
            /\ UNCHANGED logoReads
       ELSE /\ rpc' = [rpc EXCEPT ![c] = "logoRead"]
            /\ logoReads' = logoReads + 1
    /\ UNCHANGED <<rrows, rtitleH, rresult, cachedLogo, parseVars, storeVars, convertVars, totalsVars, generateVars, readVars>>

\* fs.readFile resolves: the cache is filled; QRCode.toDataURL is called
RenderLogoRead(c) ==
    /\ rpc[c] = "logoRead"
    /\ cachedLogo' = LogoBytes
    /\ rpc' = [rpc EXCEPT ![c] = "qr"]
    /\ UNCHANGED <<rrows, rtitleH, rdoc, rresult, logoReads, parseVars, storeVars, convertVars, totalsVars, generateVars, readVars>>

\* fs.readFile rejects and the render goes on without a logo
RenderLogoFailedPlaceholder(c) ==
    /\ rpc[c] = "logoRead"
    /\ rpc' = [rpc EXCEPT ![c] = "qr"]
    /\ UNCHANGED <<rrows, rtitleH, rdoc, rresult, cachedLogo, logoReads, parseVars, storeVars, convertVars, totalsVars, generateVars, readVars>>

\* fs.readFile rejects (the logo is missing): buildReportPdf rejects
RenderLogoFailed(c) ==
    /\ rpc[c] = "logoRead"
    /\ rpc' = [rpc EXCEPT ![c] = "rejected"]
    /\ UNCHANGED <<rrows, rtitleH, rdoc, rresult, cachedLogo, logoReads, parseVars, storeVars, convertVars, totalsVars, generateVars, readVars>>

\* loadLogoBuffer returned the cached bytes: QRCode.toDataURL is called
RenderLogoCached(c) ==
    /\ rpc[c] = "logoCached"
    /\ rpc' = [rpc EXCEPT ![c] = "qr"]
    /\ UNCHANGED <<rrows, rtitleH, rdoc, rresult, cachedLogo, logoReads, parseVars, storeVars, convertVars, totalsVars, generateVars, readVars>>

\* the pages are drawn on the document of the first call that has one
RenderDrawnSharedDoc(c) ==
    /\ rpc[c] = "qr"
    /\ LET drawn == pageLoop(IF rpc[1] \in {"qr", "done"} THEN rdoc[1] ELSE rdoc[c], rrows[c], rtitleH[c], 0)
       IN  /\ rdoc' = [rdoc EXCEPT ![c] = drawn]
           /\ rresult' = [rresult EXCEPT ![c] = drawn.pages]
    /\ rpc' = [rpc EXCEPT ![c] = "done"]
    /\ UNCHANGED <<rrows, rtitleH, cachedLogo, logoReads, parseVars, storeVars, convertVars, totalsVars, generateVars, readVars>>

\* the QR code is encoded: every page is drawn, doc.end() is called and the
\* promise resolves with the document's bytes
RenderDrawn(c) ==
    /\ rpc[c] = "qr"
    /\ LET drawn == pageLoop(rdoc[c], rrows[c], rtitleH[c], 0)
       IN  /\ rdoc' = [rdoc EXCEPT ![c] = drawn]
           /\ rresult' = [rresult EXCEPT ![c] = drawn.pages]
    /\ rpc' = [rpc EXCEPT ![c] = "done"]
    /\ UNCHANGED <<rrows, rtitleH, cachedLogo, logoReads, parseVars, storeVars, convertVars, totalsVars, generateVars, readVars>>

\* QRCode.toDataURL rejects: buildReportPdf rejects
RenderQrFailed(c) ==
    /\ rpc[c] = "qr"
    /\ rpc' = [rpc EXCEPT ![c] = "rejected"]
    /\ UNCHANGED <<rrows, rtitleH, rdoc, rresult, cachedLogo, logoReads, parseVars, storeVars, convertVars, totalsVars, generateVars, readVars>>

\* the caller has taken the result; the slot is free for the next call
RenderReturn(c) ==
    /\ rpc[c] \in {"done", "rejected"}
    /\ rpc' = [rpc EXCEPT ![c] = "idle"]
    /\ rrows' = [rrows EXCEPT ![c] = <<>>]
    /\ rtitleH' = [rtitleH EXCEPT ![c] = 0]
    /\ rdoc' = [rdoc EXCEPT ![c] = Null]
    /\ rresult' = [rresult EXCEPT ![c] = Null]
    /\ UNCHANGED <<cachedLogo, logoReads, parseVars, storeVars, convertVars, totalsVars, generateVars, readVars>>

(***************************************************************************)
(* data/route.ts: text functions                                           *)
(***************************************************************************)
UpperChars ==
    <<"A", "B", "C", "D", "E", "F", "G", "H", "I", "J", "K", "L", "M",
      "N", "O", "P", "Q", "R", "S", "T", "U", "V", "W", "X", "Y", "Z">>

LowerChars ==
    <<"a", "b", "c", "d", "e", "f", "g", "h", "i", "j", "k", "l", "m",
      "n", "o", "p", "q", "r", "s", "t", "u", "v", "w", "x", "y", "z">>

UpperSet == {UpperChars[i] : i \in 1..26}

LowerSet == {LowerChars[i] : i \in 1..26}

IsUpper(c) == c \in UpperSet

IsLower(c) == c \in LowerSet

\* one character of String.prototype.toLowerCase
LowerChar(c) == IF IsUpper(c) THEN LowerChars[CHOOSE i \in 1..26 : UpperChars[i] = c] ELSE c

toLowerCase(s) == [i \in 1..Len(s) |-> LowerChar(s[i])]

IsLowerAlnum(c) == IsLower(c) \/ IsDigit(c)

\* String.prototype.trim
RECURSIVE TrimEnd(_)
TrimEnd(s) == IF s # <<>> /\ IsSpace(s[Len(s)]) THEN TrimEnd(SubSeq(s, 1, Len(s) - 1)) ELSE s

trim(s) == TrimEnd(SkipSpaces(s))

\* s.includes(sub)
includes(s, sub) ==
    \E i \in 1..(Len(s) - Len(sub) + 1) : SubSeq(s, i, i + Len(sub) - 1) = sub

AllDigits(s) == \A i \in 1..Len(s) : IsDigit(s[i])

\* the places where s holds a separator character c
SepPositions(s, seps) == {i \in 1..Len(s) : s[i] \in seps}

\* normalizeHeader: value.toLowerCase().replace(/[^a-z0-9]/g, "")
normalizeHeader(value) == SelectSeq(toLowerCase(value), IsLowerAlnum)

(***************************************************************************)
(* data/route.ts: normaliseDate                                            *)
(***************************************************************************)
\* Number(raw) for a decimal literal without exponent: an optional sign, digits
\* with an optional fraction, or a fraction alone.  numeric says whether
\* Number(raw) is a number; days is its floor (the fraction of a day does not
\* change the UTC calendar date).  Exponent and radix-prefixed literals do not
\* occur in the inputs of this model.
Number(raw) ==
    LET neg  == raw # <<>> /\ Head(raw) = "-"
        u    == IF raw # <<>> /\ Head(raw) \in {"-", "+"} THEN Tail(raw) ELSE raw
        ip   == LeadingDigits(u)
        r    == SubSeq(u, Len(ip) + 1, Len(u))
        hasDot == r # <<>> /\ Head(r) = "."
        fp   == IF hasDot THEN Tail(r) ELSE <<>>
        ok   == /\ (hasDot \/ r = <<>>)
                /\ AllDigits(fp)
                /\ (ip # <<>> \/ fp # <<>>)
        int  == DigitsToNat(ip)
        fracZero == \A i \in 1..Len(fp) : fp[i] = "0"
    IN  [numeric |-> ok,
         days    |-> IF ~ok THEN 0
                     ELSE IF neg THEN (IF fracZero THEN 0 - int ELSE 0 - int - 1)
                     ELSE int]

\* the UTC calendar date z days after 1970-01-01 (what getUTCDate, getUTCMonth + 1
\* and getUTCFullYear return for that instant)
CivilFromDays(z0) ==
    LET z   == z0 + 719468
        era == z \div 146097
        doe == z - era * 146097
        yoe == (doe - doe \div 1460 + doe \div 36524 - doe \div 146096) \div 365
        doy == doe - (365 * yoe + yoe \div 4 - yoe \div 100)
        mp  == (5 * doy + 2) \div 153
        d   == doy - (153 * mp + 2) \div 5 + 1
        m   == IF mp < 10 THEN mp + 3 ELSE mp - 9
        y   == yoe + era * 400 + (IF m <= 2 THEN 1 ELSE 0)
    IN  [day |-> d, month |-> m, year |-> y]

\* Date.UTC(1899, 11, 30) in days since 1970-01-01
EXCEL_EPOCH_DAYS == -25569

\* raw.match(/^(\d{1,2})[\/-](\d{1,2})[\/-](\d{2,4})$/): the three groups, or <<>>
MatchDMY(raw) ==
    LET seps == SepPositions(raw, {"/", "-"})
    IN  IF Cardinality(seps) # 2 THEN <<>>
        ELSE LET a  == CHOOSE i \in seps : \A j \in seps : i <= j
                 b  == CHOOSE i \in seps : \A j \in seps : i >= j
                 g1 == SubSeq(raw, 1, a - 1)
                 g2 == SubSeq(raw, a + 1, b - 1)
                 g3 == SubSeq(raw, b + 1, Len(raw))
             IN  IF /\ AllDigits(g1) /\ Len(g1) \in 1..2
                    /\ AllDigits(g2) /\ Len(g2) \in 1..2
                    /\ AllDigits(g3) /\ Len(g3) \in 2..4
                 THEN <<g1, g2, g3>> ELSE <<>>

\* raw.match(/^(\d{4})-(\d{1,2})-(\d{1,2})$/): the three groups, or <<>>
MatchISO(raw) ==
    LET seps == SepPositions(raw, {"-"})
    IN  IF Cardinality(seps) # 2 \/ SepPositions(raw, {"/"}) # {} THEN <<>>
        ELSE LET a  == CHOOSE i \in seps : \A j \in seps : i <= j
                 b  == CHOOSE i \in seps : \A j \in seps : i >= j
                 g1 == SubSeq(raw, 1, a - 1)
                 g2 == SubSeq(raw, a + 1, b - 1)
                 g3 == SubSeq(raw, b + 1, Len(raw))
             IN  IF /\ AllDigits(g1) /\ Len(g1) = 4
                    /\ AllDigits(g2) /\ Len(g2) \in 1..2
                    /\ AllDigits(g3) /\ Len(g3) \in 1..2
                 THEN <<g1, g2, g3>> ELSE <<>>

\* new Date(raw) for a text that none of the patterns took.  A text without any
\* digit is an Invalid Date; texts with digits that reach this point do not
\* occur in the inputs of this model.
NativeDateValid(raw) == FALSE

\* every two-digit year is put in the century 20
normaliseDateCentury20(input) ==
    LET raw == trim(input)
        num == Number(raw)
        dmy == MatchDMY(raw)
        iso == MatchISO(raw)
    IN  IF input = <<>> \/ raw = <<>> THEN Null
        ELSE IF includes(raw, <<" ", "-", " ">>) THEN Null
        ELSE IF num.numeric /\ Len(raw) <= 5
        THEN LET date == CivilFromDays(EXCEL_EPOCH_DAYS + num.days)
             IN  Pad2(date.day) \o <<"-">> \o Pad2(date.month) \o <<"-">> \o IntToText(date.year)
        ELSE IF dmy # <<>>
        THEN LET year == IF Len(dmy[3]) = 2
                         THEN <<"2", "0">>
                              \o dmy[3]
                         ELSE dmy[3]
             IN  PadStart2(dmy[1]) \o <<"-">> \o PadStart2(dmy[2]) \o <<"-">> \o year
        ELSE IF iso # <<>>
        THEN PadStart2(iso[3]) \o <<"-">> \o PadStart2(iso[2]) \o <<"-">> \o iso[1]
        ELSE IF NativeDateValid(raw) THEN Null
        ELSE Null

\* normaliseDate(input) for a text input; <<>> is the empty or missing cell
normaliseDate(input) ==
    LET raw == trim(input)
        num == Number(raw)
        dmy == MatchDMY(raw)
        iso == MatchISO(raw)
    IN  IF input = <<>> \/ raw = <<>> THEN Null
        ELSE IF includes(raw, <<" ", "-", " ">>) THEN Null
        ELSE IF num.numeric /\ Len(raw) <= 5
        THEN LET date == CivilFromDays(EXCEL_EPOCH_DAYS + num.days)
             IN  Pad2(date.day) \o <<"-">> \o Pad2(date.month) \o <<"-">> \o IntToText(date.year)
        ELSE IF dmy # <<>>
        THEN LET year == IF Len(dmy[3]) = 2
                         THEN (IF DigitsToNat(dmy[3]) >= 70 THEN <<"1", "9">> ELSE <<"2", "0">>)
                              \o dmy[3]
                         ELSE dmy[3]
             IN  PadStart2(dmy[1]) \o <<"-">> \o PadStart2(dmy[2]) \o <<"-">> \o year
        ELSE IF iso # <<>>
        THEN PadStart2(iso[3]) \o <<"-">> \o PadStart2(iso[2]) \o <<"-">> \o iso[1]
        ELSE IF NativeDateValid(raw) THEN Null
        ELSE Null

(***************************************************************************)
(* data/route.ts: toDistanceString and toTripCount                         *)
(***************************************************************************)
\* the match of /[-+]?[0-9]*\.?[0-9]+/ that starts at position i of s, or <<>>:
\* an optional sign, then the longest run of digits with at most one "." that
\* ends in a digit
MatchKmAt(s, i) ==
    LET signed == s[i] \in {"-", "+"}
        from(k) == SubSeq(s, k, Len(s))
        try(k) ==
            LET ip  == LeadingDigits(from(k))
                r   == from(k + Len(ip))
                fp  == IF r # <<>> /\ Head(r) = "." THEN LeadingDigits(Tail(r)) ELSE <<>>
            IN  IF fp # <<>> THEN ip \o <<".">> \o fp ELSE ip
        withSign == IF signed /\ i < Len(s) THEN try(i + 1) ELSE <<>>
    IN  IF withSign # <<>> THEN <<s[i]>> \o withSign ELSE try(i)

\* raw.match(KM_MATCHER): the leftmost match, or <<>>
MatchKm(s) ==
    LET starts == {i \in 1..Len(s) : MatchKmAt(s, i) # <<>>}
    IN  IF starts = {} THEN <<>>
        ELSE MatchKmAt(s, CHOOSE i \in starts : \A j \in starts : i <= j)

\* Number.parseFloat is applied to the whole text, not to the match
toDistanceStringWholeText(value) ==
    IF value = Null THEN <<"0", " ", "k", "m">>
    ELSE LET num == parseFloat(value)
         IN  IF ~num.finite THEN <<"0", " ", "k", "m">>
             ELSE ToFixed2(num.centi) \o <<" ", "k", "m">>

\* toDistanceString(value); value is Null for null or undefined
toDistanceString(value) ==
    IF value = Null THEN <<"0", " ", "k", "m">>
    ELSE LET match == MatchKm(value)
         IN  IF match = <<>> THEN <<"0", " ", "k", "m">>
             ELSE ToFixed2(parseFloat(match).centi) \o <<" ", "k", "m">>

IsDigitOrMinus(c) == IsDigit(c) \/ c = "-"

\* Number.parseInt(text, 10): an optional sign and the digits after it
parseInt(text) ==
    LET t   == SkipSpaces(text)
        neg == t # <<>> /\ Head(t) = "-"
        u   == IF t # <<>> /\ Head(t) \in {"-", "+"} THEN Tail(t) ELSE t
        ds  == LeadingDigits(u)
    IN  [nan |-> ds = <<>>, value |-> IF neg THEN 0 - DigitsToNat(ds) ELSE DigitsToNat(ds)]

\* toTripCount(value); value is Null for null or undefined
toTripCount(value) ==
    IF value = Null THEN 0
    ELSE LET num == parseInt(SelectSeq(value, IsDigitOrMinus))
         IN  IF num.nan THEN 0 ELSE num.value

(***************************************************************************)
(* data/route.ts: parseWorkbook                                            *)
(***************************************************************************)
\* candidate labels of each column, in the order findColumn tries them
VEHICLE_LABELS == << <<"V", "e", "h", "i", "c", "l", "e", " ", "N", "o", ".">>, <<"V", "e", "h", "i", "c", "l", "e", " ", "N", "o">>, <<"V", "e", "h", "i", "c", "l", "e", " ", "N", "u", "m", "b", "e", "r">> >>

AREA_LABELS == << <<"A", "r", "e", "a">> >>

TANKER_LABELS == << <<"T", "a", "n", "k", "e", "r", " ", "T", "y", "p", "e">>, <<"T", "y", "p", "e">> >>

TRANSPORTER_LABELS == << <<"T", "r", "a", "n", "s", "p", "o", "r", "t", "e", "r", " ", "N", "a", "m", "e">>, <<"T", "r", "a", "n", "s", "p", "o", "r", "t", "e", "r">> >>

DATE_LABELS == << <<"R", "e", "p", "o", "r", "t", " ", "D", "a", "t", "e">>, <<"D", "a", "t", "e">> >>

DISTANCE_LABELS ==
    << <<"T", "r", "i", "p", " ", "D", "i", "s", "t", "a", "n", "c", "e", " ", "/", " ", "E", "n", "g", "i", "n", "e", " ", "H", "r">>,
       <<"T", "r", "i", "p", " ", "D", "i", "s", "t", "a", "n", "c", "e", " ", "/", " ", "E", "n", "g", "i", "n", "e">>,
       <<"T", "r", "i", "p", " ", "D", "i", "s", "t", "a", "n", "c", "e">>,
       <<"D", "i", "s", "t", "a", "n", "c", "e">> >>

TRIPCOUNT_LABELS == << <<"T", "r", "i", "p", " ", "C", "o", "u", "n", "t">>, <<"T", "r", "i", "p", "s">>, <<"T", "r", "i", "p">> >>

\* the labels the header test looks for
HEADER_VEHICLE == <<"V", "e", "h", "i", "c", "l", "e", " ", "N", "o">>

HEADER_DATE == <<"R", "e", "p", "o", "r", "t", " ", "D", "a", "t", "e">>

RANGE_SEPARATOR == <<" ", "-", " ">>

\* headers.findIndex(header => normalizeHeader(header) === normalizeHeader(candidate)),
\* an index from 0, or -1
RECURSIVE findIndexFrom(_, _, _)
findIndexFrom(headers, wanted, i) ==
    IF i > Len(headers) THEN -1
    ELSE IF normalizeHeader(headers[i]) = wanted THEN i - 1
    ELSE findIndexFrom(headers, wanted, i + 1)

findIndex(headers, candidate) == findIndexFrom(headers, normalizeHeader(candidate) \o <<>>, 1)

\* findColumn(headers, candidates): the index of the first candidate found, or -1
RECURSIVE findColumn(_, _)
findColumn(headers, candidates) ==
    IF candidates = <<>> THEN -1
    ELSE LET idx == findIndex(headers, Head(candidates))
         IN  IF idx # -1 THEN idx ELSE findColumn(headers, Tail(candidates))

\* getCell(row, index), index from 0
getCell(row, index) == IF index < 0 \/ index >= Len(row) THEN <<>> ELSE row[index + 1]

\* rawRow.map(value => String(value ?? "").trim())
trimRow(rawRow) == [i \in 1..Len(rawRow) |-> trim(rawRow[i])]

\* the test that makes a row the header row
isHeaderRow(row) ==
    LET joined == [i \in 1..Len(row) |-> normalizeHeader(row[i])]
    IN  /\ \E i \in 1..Len(joined) : joined[i] = normalizeHeader(HEADER_VEHICLE)
        /\ \E i \in 1..Len(joined) : joined[i] = normalizeHeader(HEADER_DATE)

\* the column mapping captured from the header row
columnIndexOf(row) ==
    LET found == findColumn(row, TRIPCOUNT_LABELS)
    IN  [vehicle     |-> findColumn(row, VEHICLE_LABELS),
         area        |-> findColumn(row, AREA_LABELS),
         tankerType  |-> findColumn(row, TANKER_LABELS),
         transporter |-> findColumn(row, TRANSPORTER_LABELS),
         reportDate  |-> findColumn(row, DATE_LABELS),
         distance    |-> findColumn(row, DISTANCE_LABELS),
         tripCount   |-> IF found = -1 THEN Len(row) - 1 ELSE found]

isBlankRow(row) == \A i \in 1..Len(row) : row[i] = <<>>

\* a || b for texts: a when it is not empty
OrElse(a, b) == IF a # <<>> THEN a ELSE b

\* let context = null
NoContext ==
    [vehicleNo |-> <<>>, area |-> <<>>, tankerType |-> <<>>, transporterName |-> <<>>,
     captured |-> FALSE]

\* context?.field || ""
contextField(ctx, field) == IF ~ctx.captured THEN <<>> ELSE ctx[field]

\* only the vehicle is captured from a range row
contextOfVehicleOnly(row, cols) ==
    [vehicleNo       |-> getCell(row, cols.vehicle),
     area            |-> <<>>,
     tankerType      |-> <<>>,
     transporterName |-> <<>>,
     captured        |-> TRUE]

\* the context captured from a range row
contextOf(row, cols) ==
    [vehicleNo       |-> getCell(row, cols.vehicle),
     area            |-> getCell(row, cols.area),
     tankerType      |-> getCell(row, cols.tankerType),
     transporterName |-> getCell(row, cols.transporter),
     captured        |-> TRUE]

resolveContextFirst(cell, inherited) == OrElse(inherited, cell)

\* getCell(row, col) || context?.field || ""
resolve(cell, inherited) == OrElse(cell, inherited)

\* the record built from a data row whose date normalised to reportDate
recordOf(row, cols, ctx, reportDate) ==
    [vehicleNo       |-> resolve(getCell(row, cols.vehicle), contextField(ctx, "vehicleNo")),
     area            |-> resolve(getCell(row, cols.area), contextField(ctx, "area")),
     tankerType      |-> resolve(getCell(row, cols.tankerType), contextField(ctx, "tankerType")),
     transporterName |-> resolve(getCell(row, cols.transporter), contextField(ctx, "transporterName")),
     reportDate      |-> reportDate,
     tripDistanceKm  |-> toDistanceString(getCell(row, cols.distance)),
     tripCount       |-> toTripCount(getCell(row, cols.tripCount))]

hasRangeNever(reportDateRaw) == FALSE

\* typeof reportDateRaw === "string" && reportDateRaw.includes(" - ")
hasRange(reportDateRaw) == includes(reportDateRaw, RANGE_SEPARATOR)

\* what one iteration of the row loop does with a row once the header is known:
\* the branch taken
rowBranchKeepUnidentified(row, cols, ctx) ==
    LET reportDateRaw == getCell(row, cols.reportDate)
    IN  IF isBlankRow(row) THEN "blank"
        ELSE IF normalizeHeader(reportDateRaw) = normalizeHeader(HEADER_DATE) THEN "repeatedHeader"
        ELSE IF hasRange(reportDateRaw) THEN "context"
        ELSE IF normaliseDate(reportDateRaw) = Null THEN "badDate"
        ELSE "emit"

rowBranch(row, cols, ctx) ==
    LET reportDateRaw == getCell(row, cols.reportDate)
    IN  IF isBlankRow(row) THEN "blank"
        ELSE IF normalizeHeader(reportDateRaw) = normalizeHeader(HEADER_DATE) THEN "repeatedHeader"
        ELSE IF hasRange(reportDateRaw) THEN "context"
        ELSE IF normaliseDate(reportDateRaw) = Null THEN "badDate"
        ELSE IF recordOf(row, cols, ctx, normaliseDate(reportDateRaw)).vehicleNo = <<>> THEN "noVehicle"
        ELSE "emit"

(***************************************************************************)
(* data/route.ts: the rows a sheet may hold                                *)
(***************************************************************************)
\* the usual header
HeaderRow1 ==
    << <<"V", "e", "h", "i", "c", "l", "e", " ", "N", "o", ".">>,
       <<"A", "r", "e", "a">>,
       <<"T", "a", "n", "k", "e", "r", " ", "T", "y", "p", "e">>,
       <<"T", "r", "a", "n", "s", "p", "o", "r", "t", "e", "r", " ", "N", "a", "m", "e">>,
       <<"R", "e", "p", "o", "r", "t", " ", "D", "a", "t", "e">>,
       <<"T", "r", "i", "p", " ", "D", "i", "s", "t", "a", "n", "c", "e", " ", "/", " ", "E", "n", "g", "i", "n", "e", " ", "H", "r">>,
       <<"T", "r", "i", "p", " ", "C", "o", "u", "n", "t">> >>

\* a header with other labels, columns in another order, no trip-count label
HeaderRow2 ==
    << <<"V", "e", "h", "i", "c", "l", "e", " ", "N", "o">>,
       <<"T", "y", "p", "e">>,
       <<"A", "r", "e", "a">>,
       <<"T", "r", "a", "n", "s", "p", "o", "r", "t", "e", "r">>,
       <<"R", "e", "p", "o", "r", "t", " ", "D", "a", "t", "e">>,
       <<"D", "i", "s", "t", "a", "n", "c", "e">>,
       <<"R", "e", "m", "a", "r", "k", "s">> >>

\* a per-vehicle summary row
ContextRow1 ==
    << <<"D", "L", "1", "A", "B", "1", "2", "3", "4">>,
       <<"N", "o", "r", "t", "h">>,
       <<"W", "a", "t", "e", "r">>,
       <<"A", "c", "m", "e">>,
       <<"0", "1", "-", "0", "7", "-", "2", "0", "2", "5", " ", "-", " ", "3", "1", "-", "0", "7", "-", "2", "0", "2", "5">>,
       <<"3", "1", "0", ".", "0", "0", " ", "k", "m">>,
       <<"3", "1">> >>

\* a summary row with blank area and tanker type
ContextRow2 ==
    << <<"U", "P", "3", "C">>,
       <<>>,
       <<>>,
       <<"Z", "e", "d">>,
       <<"0", "1", "-", "0", "8", "-", "2", "0", "2", "5", " ", "-", " ", "3", "1", "-", "0", "8", "-", "2", "0", "2", "5">>,
       <<"0", " ", "k", "m">>,
       <<"0">> >>

\* a daily row whose identifying cells are blank
DataRowInherit ==
    << <<" ", " ">>,
       <<>>,
       <<>>,
       <<>>,
       <<"0", "5", "-", "0", "7", "-", "2", "0", "2", "5">>,
       <<"1", "2", ".", "5", " ", "k", "m", " ", "e", "x", "t", "r", "a">>,
       <<" ", "3", " ", "t", "r", "i", "p", "s">> >>

\* a daily row with its own identifying cells
DataRowOwn ==
    << <<"H", "R", "9", "Z">>,
       <<"S", "o", "u", "t", "h">>,
       <<"O", "i", "l">>,
       <<"B", "e", "t", "a">>,
       <<"6", "/", "7", "/", "2", "5">>,
       <<"7", ".", "2", "5">>,
       <<"2">> >>

\* a daily row whose date cannot be read
DataRowBadDate ==
    << <<"H", "R", "9", "Z">>,
       <<"S", "o", "u", "t", "h">>,
       <<"O", "i", "l">>,
       <<"B", "e", "t", "a">>,
       <<"n", "/", "a">>,
       <<"1", " ", "k", "m">>,
       <<"1">> >>

\* a row of white space
BlankRow ==
    << <<" ">>,
       <<>>,
       <<>>,
       <<>>,
       <<" ", " ">>,
       <<>>,
       <<>> >>

\* a section title whose date cell is a dashed header label
DashedHeaderRow ==
    << <<"M", "H", "4", "Q">>,
       <<"W", "e", "s", "t">>,
       <<"G", "a", "s">>,
       <<"C", "o", "r", "e">>,
       <<"R", "e", "p", "o", "r", "t", " ", "-", " ", "D", "a", "t", "e">>,
       <<"D", "i", "s", "t", "a", "n", "c", "e">>,
       <<"T", "r", "i", "p", "s">> >>

\* a header whose vehicle column is labelled "Vehicle Number"
HeaderRow3 ==
    << <<"V", "e", "h", "i", "c", "l", "e", " ", "N", "u", "m", "b", "e", "r">>,
       <<"A", "r", "e", "a">>,
       <<"T", "a", "n", "k", "e", "r", " ", "T", "y", "p", "e">>,
       <<"T", "r", "a", "n", "s", "p", "o", "r", "t", "e", "r", " ", "N", "a", "m", "e">>,
       <<"R", "e", "p", "o", "r", "t", " ", "D", "a", "t", "e">>,
       <<"T", "r", "i", "p", " ", "D", "i", "s", "t", "a", "n", "c", "e">>,
       <<"T", "r", "i", "p", " ", "C", "o", "u", "n", "t">> >>

RowPalette ==
    {HeaderRow1, HeaderRow2, HeaderRow3, ContextRow1, ContextRow2, DataRowInherit,
     DataRowOwn, DataRowBadDate, BlankRow, DashedHeaderRow}

(***************************************************************************)
(* data/route.ts: parseWorkbook as a process, one step per row              *)
(***************************************************************************)
\* most rows read in one workbook, over all its sheets, not counting the row
\* taken as the header row of each sheet
MaxBodyRows == 2

\* most sheets of a workbook
SheetLimit == {1, 2}

\* the calls of buildReportPdf in flight
Calls == {1, 2}

NoColumns ==
    [area |-> -1, tankerType |-> -1, reportDate |-> -1, tripCount |-> -1,
     vehicle |-> -1, transporter |-> -1, distance |-> -1]

\* the module is loaded and no request is being served
InitServer ==
    /\ rpc = [c \in Calls |-> "idle"]
    /\ rrows = [c \in Calls |-> <<>>]
    /\ rtitleH = [c \in Calls |-> 0]
    /\ rdoc = [c \in Calls |-> Null]
    /\ rresult = [c \in Calls |-> Null]
    /\ cachedLogo = Null
    /\ logoReads = 0
    /\ wpc = "idle"
    /\ workbook = <<>>
    /\ headerRow = <<>>
    /\ headerIndex = <<>>
    /\ columnIndex = <<>>
    /\ context = NoContext
    /\ records = <<>>
    /\ allRecords = <<>>
    /\ trace = <<>>
    /\ srcs = <<>>
    /\ allSrcs = <<>>
    /\ reports = {}
    /\ snapshots = {}
    /\ nextId = 1
    /\ nextCode = 1
    /\ upc = "idle"
    /\ upRows = <<>>
    /\ upDone = 0
    /\ upCode = 0
    /\ upFile = Null
    /\ ppc = "idle"
    /\ pId = 0
    /\ pData = Null
    /\ requests = 0
    /\ lastStatus = 0
    /\ dirtyBatch = FALSE
    /\ dirtyUpload = FALSE

\* the body of a generate request after normalizeFilters: dateFrom and dateTo as
\* the date inputs send them (YYYY-MM-DD), the vehicles, the area or Null, the
\* months (YYYY-MM)
Request(dateFrom, dateTo, vehicles, area, months) ==
    [area |-> area, dateFrom |-> dateFrom, dateTo |-> dateTo, vehicles |-> vehicles,
     months |-> months]

NoRequest == Request(<<>>, <<>>, <<>>, Null, <<>>)

WholeYearRequest ==
    Request(<<"2", "0", "2", "5", "-", "0", "1", "-", "0", "1">>,
            <<"2", "0", "2", "5", "-", "1", "2", "-", "3", "1">>, <<>>, Null, <<>>)

\* no cell is being converted
ConvertIdle ==
    /\ cpc = "idle"
    /\ dateIn = <<>>
    /\ dateOut = Null
    /\ tripsIn = <<>>
    /\ tripsOut = 0
    /\ distIn = Null
    /\ distOut = Null

\* no row list is being totalled
TotalsIdle ==
    /\ tpc = "idle"
    /\ trows = <<>>
    /\ tcell = Null
    /\ tsummary = Null

\* no report is being generated and none was
GenerateIdle ==
    /\ gpc = "idle"
    /\ grows = <<>>
    /\ gbuffer = <<>>
    /\ gstatus = 0
    /\ pdfGenerations = <<>>
    /\ grequests = 0
    /\ ginvoked = FALSE
    /\ gbase = 0
    /\ greq = NoRequest

\* what the verify route answers with when it finds no record
NoSummary ==
    [totalTrips |-> 0, vehicleReports |-> <<>>, totalDistance |-> 0, totalVehicleReports |-> 0]

\* nothing is being selected and no code has been looked up
ReadIdle ==
    /\ fpc = "idle"
    /\ ftable = {}
    /\ freq = NoRequest
    /\ ftz = 0
    /\ frows = <<>>
    /\ vcode = 0
    /\ vstatus = 0
    /\ vsummary = NoSummary
    /\ vbytes = <<>>

Init ==
    /\ InitServer
    /\ ConvertIdle
    /\ TotalsIdle
    /\ GenerateIdle
    /\ ReadIdle

\* the rows read so far that were not taken as a sheet's header row
RECURSIVE BodyRows(_)
BodyRows(tr) ==
    IF tr = <<>> THEN 0
    ELSE Cardinality({i \in 1..Len(Head(tr)) : Head(tr)[i] # "header"}) + BodyRows(Tail(tr))

\* the context is declared once, outside the loop over the sheets
SheetStartKeepContext(before) ==
    /\ headerRow' = <<>>
    /\ headerIndex' = Append(before.headerIndex, -1)
    /\ columnIndex' = Append(before.columnIndex, NoColumns)
    /\ context' = context
    /\ records' = <<>>
    /\ srcs' = <<>>

\* the per-sheet declarations: records, headerRow, headerIndex, columnIndex, context
SheetStart(before) ==
    /\ headerRow' = <<>>
    /\ headerIndex' = Append(before.headerIndex, -1)
    /\ columnIndex' = Append(before.columnIndex, NoColumns)
    /\ context' = NoContext
    /\ records' = <<>>
    /\ srcs' = <<>>

\* parseWorkbook(file) with a workbook of at least one sheet: the first sheet's scan begins
ParseStart ==
    /\ wpc = "idle"
    /\ wpc' = "scan"
    /\ workbook' = << <<>> >>
    /\ trace' = << <<>> >>
    /\ allRecords' = <<>>
    /\ allSrcs' = <<>>
    /\ SheetStart([headerIndex |-> <<>>, columnIndex |-> <<>>])
    /\ UNCHANGED <<renderVars, storeVars, convertVars, totalsVars, generateVars, readVars>>

\* workbook.SheetNames.length === 0: parseWorkbook throws
ParseNoSheets ==
    /\ wpc = "idle"
    /\ wpc' = "threw"
    /\ UNCHANGED <<workbook, headerRow, headerIndex, columnIndex, context, records,
                   allRecords, trace, srcs, allSrcs, renderVars, storeVars, convertVars, totalsVars, generateVars, readVars>>

\* the header test is made on every row, also once a header is known
ScanRowRedetect(rawRow) ==
    /\ wpc = "scan"
    /\ LET sheet    == Len(workbook)
           rowIndex == Len(workbook[sheet])
           row      == trimRow(rawRow)
           branch   == IF isHeaderRow(row) THEN "header"
                       ELSE IF headerRow = <<>> THEN "searching"
                       ELSE rowBranch(row, columnIndex[sheet], context)
       IN  /\ workbook' = [workbook EXCEPT ![sheet] = Append(@, rawRow)]
           /\ trace' = [trace EXCEPT ![sheet] = Append(@, branch)]
           /\ IF branch = "header"
              THEN /\ headerRow' = row
                   /\ headerIndex' = [headerIndex EXCEPT ![sheet] = rowIndex]
                   /\ columnIndex' = [columnIndex EXCEPT ![sheet] = columnIndexOf(row)]
                   /\ UNCHANGED <<context, records, srcs>>
              ELSE IF branch = "context"
              THEN /\ context' = contextOf(row, columnIndex[sheet])
                   /\ UNCHANGED <<headerRow, headerIndex, columnIndex, records, srcs>>
              ELSE IF branch = "emit"
              THEN /\ records' = Append(records,
                          recordOf(row, columnIndex[sheet], context,
                                   normaliseDate(getCell(row, columnIndex[sheet].reportDate))))
                   /\ srcs' = Append(srcs, rowIndex)
                   /\ UNCHANGED <<headerRow, headerIndex, columnIndex, context>>
              ELSE UNCHANGED <<headerRow, headerIndex, columnIndex, context, records, srcs>>
    /\ UNCHANGED <<wpc, allRecords, allSrcs, renderVars, storeVars, convertVars, totalsVars, generateVars, readVars>>

\* one iteration of the row loop, on the next row rawRow of the sheet
ScanRow(rawRow) ==
    /\ wpc = "scan"
    /\ LET sheet    == Len(workbook)
           rowIndex == Len(workbook[sheet])
           row      == trimRow(rawRow)
           branch   == IF headerRow = <<>>
                       THEN (IF isHeaderRow(row) THEN "header" ELSE "searching")
                       ELSE rowBranch(row, columnIndex[sheet], context)
       IN  /\ workbook' = [workbook EXCEPT ![sheet] = Append(@, rawRow)]
           /\ trace' = [trace EXCEPT ![sheet] = Append(@, branch)]
           /\ IF branch = "header"
              THEN /\ headerRow' = row
                   /\ headerIndex' = [headerIndex EXCEPT ![sheet] = rowIndex]
                   /\ columnIndex' = [columnIndex EXCEPT ![sheet] = columnIndexOf(row)]
                   /\ UNCHANGED <<context, records, srcs>>
              ELSE IF branch = "context"
              THEN /\ context' = contextOf(row, columnIndex[sheet])
                   /\ UNCHANGED <<headerRow, headerIndex, columnIndex, records, srcs>>
              ELSE IF branch = "emit"
              THEN /\ records' = Append(records,
                          recordOf(row, columnIndex[sheet], context,
                                   normaliseDate(getCell(row, columnIndex[sheet].reportDate))))
                   /\ srcs' = Append(srcs, rowIndex)
                   /\ UNCHANGED <<headerRow, headerIndex, columnIndex, context>>
              ELSE UNCHANGED <<headerRow, headerIndex, columnIndex, context, records, srcs>>
    /\ UNCHANGED <<wpc, allRecords, allSrcs, renderVars, storeVars, convertVars, totalsVars, generateVars, readVars>>

\* allRecords.push(...records): what the end of a sheet adds
pushRecords(all, recs) == all \o recs

\* the sheet has no more rows and another sheet follows
NextSheet ==
    /\ wpc = "scan"
    /\ allRecords' = pushRecords(allRecords, records)
    /\ allSrcs' = pushRecords(allSrcs, [k \in 1..Len(srcs) |-> <<Len(workbook), srcs[k]>>])
    /\ workbook' = Append(workbook, <<>>)
    /\ trace' = Append(trace, <<>>)
    /\ SheetStart([headerIndex |-> headerIndex, columnIndex |-> columnIndex])
    /\ UNCHANGED <<wpc, renderVars, storeVars, convertVars, totalsVars, generateVars, readVars>>

\* the last sheet has no more rows: parseWorkbook returns allRecords
ParseReturn ==
    /\ wpc = "scan"
    /\ allRecords' = pushRecords(allRecords, records)
    /\ allSrcs' = pushRecords(allSrcs, [k \in 1..Len(srcs) |-> <<Len(workbook), srcs[k]>>])
    /\ wpc' = "returned"
    /\ UNCHANGED <<workbook, headerRow, headerIndex, columnIndex, context, records,
                   trace, srcs, renderVars, storeVars, convertVars, totalsVars, generateVars, readVars>>

ParseNext ==
    \/ ParseStart
    \/ ParseNoSheets
    \/ \E rawRow \in RowPalette : BodyRows(trace) < MaxBodyRows /\ ScanRow(rawRow)
    \/ Len(workbook) + 1 \in SheetLimit /\ NextSheet
    \/ ParseReturn

(***************************************************************************)
(* data/route.ts: the record store (POST, PATCH, DELETE, persistRows)      *)
(*                                                                         *)
(* A prisma.$transaction is one step: it commits whole or not at all.  The *)
(* uploader (ensureUserByEmail, uploadedBy) and the timestamps are left    *)
(* out: no handler's outcome depends on them.                              *)
(***************************************************************************)
UPSERT_BATCH_SIZE == 50

\* chunkArray(items, size)
RECURSIVE chunkFrom(_, _, _)
chunkFrom(items, size, i) ==
    IF i >= Len(items) THEN <<>>
    ELSE <<Slice(items, i, i + size)>> \o chunkFrom(items, size, i + size)

chunkArray(items, size) == IF size <= 0 THEN <<items>> ELSE chunkFrom(items, size, 0)

\* the unique index Report_vehicleNo_reportDate_key: some record other than the
\* one with id except holds the pair
keyTakenNever(table, vehicleNo, reportDate, except) == FALSE

keyTaken(table, vehicleNo, reportDate, except) ==
    \E r \in table : r.id # except /\ r.vehicleNo = vehicleNo /\ r.reportDate = reportDate

\* the stored record made of a ParsedRow
reportOf(id, row, snapshotCode) ==
    [id |-> id, snapshotCode |-> snapshotCode, vehicleNo |-> row.vehicleNo,
     area |-> row.area, tankerType |-> row.tankerType,
     transporterName |-> row.transporterName, reportDate |-> row.reportDate,
     tripDistanceKm |-> row.tripDistanceKm, tripCount |-> row.tripCount]

\* prisma.report.upsert that leaves an existing record as it is
upsertKeepExisting(db, record, snapshotCode) ==
    IF \E r \in db.reports : r.vehicleNo = record.vehicleNo /\ r.reportDate = record.reportDate
    THEN db
    ELSE [reports |-> db.reports \cup {reportOf(db.nextId, record, snapshotCode)},
          nextId  |-> db.nextId + 1]

\* prisma.report.upsert({ where: { vehicleNo_reportDate }, update, create }) on
\* db = [reports, nextId]
upsert(db, record, snapshotCode) ==
    IF \E r \in db.reports : r.vehicleNo = record.vehicleNo /\ r.reportDate = record.reportDate
    THEN [db EXCEPT !.reports =
            {IF r.vehicleNo = record.vehicleNo /\ r.reportDate = record.reportDate
             THEN reportOf(r.id, record, snapshotCode) ELSE r : r \in db.reports}]
    ELSE [reports |-> db.reports \cup {reportOf(db.nextId, record, snapshotCode)},
          nextId  |-> db.nextId + 1]

\* the upserts of one batch, in order, inside one transaction (each step's
\* result is bound through a one-element set, so it is computed before the next)
RECURSIVE upsertBatch(_, _, _)
upsertBatch(db, batch, snapshotCode) ==
    IF batch = <<>> THEN db
    ELSE CHOOSE after \in {upsertBatch(next, Tail(batch), snapshotCode) :
                               next \in {upsert(db, Head(batch), snapshotCode)}} : TRUE

\* the batch persistRows sends next, when done rows are committed
nextBatch(rows, done) == chunkArray(rows, UPSERT_BATCH_SIZE)[(done \div UPSERT_BATCH_SIZE) + 1]

(***************************************************************************)
(* Requests                                                                *)
(***************************************************************************)
VEHICLE_A == <<"D", "L", "1">>

VEHICLE_B == <<"U", "P", "3">>

DATE_A == <<"0", "5", "-", "0", "7", "-", "2", "0", "2", "5">>

\* the singleRecord bodies of POST; Null is an absent field
SingleRecords ==
    { [vehicleNo |-> <<" ", "D", "L", "1", " ">>, area |-> <<"W", "e", "s", "t">>, tankerType |-> Null,
       transporterName |-> <<"A", "c", "m", "e">>, reportDate |-> <<"2", "0", "2", "5", "-", "0", "7", "-", "0", "5">>,
       tripDistanceKm |-> <<"7">>, tripCount |-> <<"2">>],
      [vehicleNo |-> <<"U", "P", "3">>, area |-> <<"E", "a", "s", "t">>, tankerType |-> <<"O", "i", "l">>,
       transporterName |-> Null, reportDate |-> <<"5", "/", "7", "/", "2", "5">>,
       tripDistanceKm |-> <<"1", "2", ".", "5", " ", "k", "m">>, tripCount |-> <<"4", " ", "t", "r", "i", "p", "s">>],
      [vehicleNo |-> <<" ", " ">>, area |-> <<"E", "a", "s", "t">>, tankerType |-> Null,
       transporterName |-> Null, reportDate |-> <<"5", "/", "7", "/", "2", "5">>,
       tripDistanceKm |-> Null, tripCount |-> Null],
      [vehicleNo |-> <<"U", "P", "3">>, area |-> Null, tankerType |-> Null,
       transporterName |-> Null, reportDate |-> <<"n", "/", "a">>,
       tripDistanceKm |-> Null, tripCount |-> Null] }

\* String(value ?? "").trim()
trimmedOrEmpty(value) == IF value = Null THEN <<>> ELSE trim(value)

\* normaliseDate(value) ?? ""
dateOrEmpty(value) ==
    IF value = Null \/ normaliseDate(value) = Null THEN <<>> ELSE normaliseDate(value)

\* normalizedRecord of POST's single-record branch
normalizedRecord(singleRecord) ==
    [vehicleNo       |-> trimmedOrEmpty(singleRecord.vehicleNo),
     area            |-> trimmedOrEmpty(singleRecord.area),
     tankerType      |-> trimmedOrEmpty(singleRecord.tankerType),
     transporterName |-> trimmedOrEmpty(singleRecord.transporterName),
     reportDate      |-> dateOrEmpty(singleRecord.reportDate),
     tripDistanceKm  |-> toDistanceString(singleRecord.tripDistanceKm),
     tripCount       |-> toTripCount(singleRecord.tripCount)]

\* the rawRecords bodies of POST
JsonBatches ==
    { <<>>,
      << [vehicleNo |-> <<"D", "L", "1">>, area |-> <<"N", "o", "r", "t", "h">>, tankerType |-> <<"W", "a", "t", "e", "r">>,
          transporterName |-> <<"A", "c", "m", "e">>, reportDate |-> <<"2", "0", "2", "5", "-", "0", "7", "-", "0", "5">>,
          tripDistanceKm |-> <<"1", "0", " ", "k", "m">>, tripCount |-> <<"1">>],
         [vehicleNo |-> <<"U", "P", "3">>, area |-> <<"E", "a", "s", "t">>, tankerType |-> <<"O", "i", "l">>,
          transporterName |-> <<"Z", "e", "d">>, reportDate |-> <<"n", "/", "a">>,
          tripDistanceKm |-> <<"3", " ", "k", "m">>, tripCount |-> <<"3">>],
         [vehicleNo |-> <<"D", "L", "1">>, area |-> <<"S", "o", "u", "t", "h">>, tankerType |-> <<"W", "a", "t", "e", "r">>,
          transporterName |-> <<"A", "c", "m", "e">>, reportDate |-> <<"5", "/", "7", "/", "2", "5">>,
          tripDistanceKm |-> <<"2", "0", ".", "5">>, tripCount |-> <<"2">>] >>,
      << [vehicleNo |-> <<"U", "P", "3">>, area |-> <<"E", "a", "s", "t">>, tankerType |-> <<"O", "i", "l">>,
          transporterName |-> <<"Z", "e", "d">>, reportDate |-> <<"1", " ", "-", " ", "2">>,
          tripDistanceKm |-> <<"3", " ", "k", "m">>, tripCount |-> <<"3">>] >>,
      << [vehicleNo |-> <<>>, area |-> <<"E", "a", "s", "t">>, tankerType |-> <<"O", "i", "l">>,
          transporterName |-> <<"Z", "e", "d">>, reportDate |-> <<"6", "/", "7", "/", "2", "5">>,
          tripDistanceKm |-> Null, tripCount |-> <<"3">>] >> }

\* rawRecords.map(r => ({ ...r, reportDate, tripDistanceKm, tripCount })).filter(r => r.reportDate)
jsonRows(rawRecords) ==
    SelectSeq([k \in 1..Len(rawRecords) |->
                 [vehicleNo       |-> rawRecords[k].vehicleNo,
                  area            |-> rawRecords[k].area,
                  tankerType      |-> rawRecords[k].tankerType,
                  transporterName |-> rawRecords[k].transporterName,
                  reportDate      |-> dateOrEmpty(rawRecords[k].reportDate),
                  tripDistanceKm  |-> toDistanceString(rawRecords[k].tripDistanceKm),
                  tripCount       |-> toTripCount(rawRecords[k].tripCount)]],
              LAMBDA r : r.reportDate # <<>>)

\* most rows of an upload beyond one full batch
MaxOverflow == 1

\* the sizes of the parsed workbooks uploaded
UploadSizes == {0, 1, 2} \cup {UPSERT_BATCH_SIZE + d : d \in 0..MaxOverflow}

UploadKinds == {1, 2}

\* the k-th row parseWorkbook returned: kind 1 repeats one vehicle and date with
\* changing values, kind 2 alternates between two vehicles
ParsedRowOf(kind, k) ==
    [vehicleNo       |-> IF kind = 1 \/ k % 2 = 1 THEN VEHICLE_A ELSE VEHICLE_B,
     area            |-> IF (k + kind) % 2 = 0 THEN <<"N", "o", "r", "t", "h">> ELSE <<"S", "o", "u", "t", "h">>,
     tankerType      |-> <<"W", "a", "t", "e", "r">>,
     transporterName |-> IF k > UPSERT_BATCH_SIZE THEN <<"Z", "e", "d">> ELSE <<"A", "c", "m", "e">>,
     reportDate      |-> DATE_A,
     tripDistanceKm  |-> ToFixed2(100 * (k % 3)) \o <<" ", "k", "m">>,
     tripCount       |-> k % 3]

ParsedRows(n, kind) == [k \in 1..n |-> ParsedRowOf(kind, k)]

\* the record bodies of PATCH; Null is an absent field
PatchRecords ==
    { [vehicleNo |-> <<"U", "P", "3", " ">>, area |-> Null, tankerType |-> Null, transporterName |-> Null,
       reportDate |-> Null, tripDistanceKm |-> Null, tripCount |-> Null],
      [vehicleNo |-> Null, area |-> <<"H", "i", "l", "l", "s">>, tankerType |-> Null, transporterName |-> Null,
       reportDate |-> Null, tripDistanceKm |-> <<"8", " ", "k", "m">>, tripCount |-> Null],
      [vehicleNo |-> Null, area |-> Null, tankerType |-> Null, transporterName |-> Null,
       reportDate |-> <<"n", "/", "a">>, tripDistanceKm |-> Null, tripCount |-> Null] }

\* a ?? b
Coalesce(a, b) == IF a # Null THEN a ELSE b

\* updateData of PATCH
updateData(record, existing) ==
    [vehicleNo       |-> trim(Coalesce(record.vehicleNo, existing.vehicleNo)),
     area            |-> trim(Coalesce(record.area, existing.area)),
     tankerType      |-> trim(Coalesce(record.tankerType, existing.tankerType)),
     transporterName |-> trim(Coalesce(record.transporterName, existing.transporterName)),
     reportDate      |-> normaliseDate(Coalesce(record.reportDate, existing.reportDate)),
     tripDistanceKm  |-> toDistanceString(Coalesce(record.tripDistanceKm, existing.tripDistanceKm)),
     tripCount       |-> toTripCount(Coalesce(record.tripCount, IntToText(existing.tripCount)))]

\* most requests the service receives
MaxRequests == 3

uploadVars == <<upc, upRows, upDone, upCode, upFile>>

patchVars == <<ppc, pId, pData>>

\* a write by a request other than the upload in flight
OtherWrite ==
    /\ dirtyBatch' = (upc # "idle")
    /\ dirtyUpload' = (upc # "idle")

\* POST with a singleRecord
PostSingle(singleRecord) ==
    /\ requests < MaxRequests
    /\ requests' = requests + 1
    /\ LET rec == normalizedRecord(singleRecord)
       IN  IF rec.vehicleNo = <<>> \/ rec.reportDate = <<>>
           THEN /\ lastStatus' = 400
                /\ UNCHANGED <<reports, snapshots, nextId, nextCode, dirtyBatch, dirtyUpload>>
           ELSE IF keyTaken(reports, rec.vehicleNo, rec.reportDate, 0)
           THEN /\ lastStatus' = 500
                /\ UNCHANGED <<reports, snapshots, nextId, nextCode, dirtyBatch, dirtyUpload>>
           ELSE /\ lastStatus' = 200
                /\ nextCode' = nextCode + 1
                /\ snapshots' = snapshots \cup
                       {[snapshotCode |-> nextCode, recordCount |-> 1,
                         fileName |-> <<"m", "a", "n", "u", "a", "l", "-", "e", "n", "t", "r", "y">>]}
                /\ reports' = reports \cup {reportOf(nextId, rec, nextCode)}
                /\ nextId' = nextId + 1
                /\ OtherWrite
    /\ UNCHANGED <<uploadVars, patchVars, renderVars, parseVars, convertVars, totalsVars, generateVars, readVars>>

\* persistRows is entered with rows
PersistBegin(rows, fileName) ==
    /\ upc' = "first"
    /\ upRows' = rows
    /\ upDone' = 0
    /\ upCode' = nextCode
    /\ upFile' = fileName
    /\ nextCode' = nextCode + 1
    /\ dirtyBatch' = FALSE
    /\ dirtyUpload' = FALSE
    /\ UNCHANGED lastStatus

\* POST with rawRecords
PostJsonBatch(rawRecords) ==
    /\ requests < MaxRequests
    /\ upc = "idle"
    /\ requests' = requests + 1
    /\ IF rawRecords = <<>> \/ jsonRows(rawRecords) = <<>>
       THEN /\ lastStatus' = 400
            /\ UNCHANGED <<uploadVars, nextCode, dirtyBatch, dirtyUpload>>
       ELSE PersistBegin(jsonRows(rawRecords), Null)
    /\ UNCHANGED <<reports, snapshots, nextId, patchVars, renderVars, parseVars, convertVars, totalsVars, generateVars, readVars>>

\* POST with a spreadsheet whose parse returned parsedRows
PostSpreadsheet(parsedRows) ==
    /\ requests < MaxRequests
    /\ upc = "idle"
    /\ requests' = requests + 1
    /\ IF parsedRows = <<>>
       THEN /\ lastStatus' = 400
            /\ UNCHANGED <<uploadVars, nextCode, dirtyBatch, dirtyUpload>>
       ELSE PersistBegin(parsedRows, <<"u", "p", "l", "o", "a", "d", "e", "d", ".", "x", "l", "s", "x">>)
    /\ UNCHANGED <<reports, snapshots, nextId, patchVars, renderVars, parseVars, convertVars, totalsVars, generateVars, readVars>>

\* what a committed batch leaves of the upload
BatchCommitted(batch, db) ==
    /\ reports' = db.reports
    /\ nextId' = db.nextId
    /\ upDone' = upDone + Len(batch)
    /\ upc' = IF upDone + Len(batch) < Len(upRows) THEN "rest" ELSE "refresh"
    /\ dirtyBatch' = FALSE
    /\ UNCHANGED <<upRows, upCode, upFile, nextCode, dirtyUpload, requests, lastStatus,
                   patchVars, renderVars, parseVars, convertVars, totalsVars, generateVars, readVars>>

\* persistRows: the transaction of the snapshot and the first batch commits
PersistFirstBatch ==
    /\ upc = "first"
    /\ snapshots' = snapshots \cup
           {[snapshotCode |-> upCode, recordCount |-> Len(upRows), fileName |-> upFile]}
    /\ LET batch == nextBatch(upRows, upDone)
       IN  BatchCommitted(batch,
               upsertBatch([reports |-> reports, nextId |-> nextId], batch, upCode))

\* persistRows: the transaction of a later batch commits
PersistNextBatch ==
    /\ upc = "rest"
    /\ LET batch == nextBatch(upRows, upDone)
       IN  BatchCommitted(batch,
               upsertBatch([reports |-> reports, nextId |-> nextId], batch, upCode))
    /\ UNCHANGED snapshots

\* persistRows: a transaction fails and rolls back; POST answers 500
PersistFails ==
    /\ upc \in {"first", "rest"}
    /\ upc' = "idle"
    /\ upRows' = <<>>
    /\ upDone' = 0
    /\ lastStatus' = 500
    /\ dirtyBatch' = FALSE
    /\ dirtyUpload' = FALSE
    /\ UNCHANGED <<reports, snapshots, nextId, nextCode, upCode, upFile, requests,
                   patchVars, renderVars, parseVars, convertVars, totalsVars, generateVars, readVars>>

\* persistRows: findMany, and POST answers with the stored records
PersistRefresh ==
    /\ upc = "refresh"
    /\ upc' = "idle"
    /\ upRows' = <<>>
    /\ upDone' = 0
    /\ lastStatus' = 200
    /\ dirtyBatch' = FALSE
    /\ dirtyUpload' = FALSE
    /\ UNCHANGED <<reports, snapshots, nextId, nextCode, upCode, upFile, requests,
                   patchVars, renderVars, parseVars, convertVars, totalsVars, generateVars, readVars>>

\* PATCH up to its findUnique and validation
PatchRead(id, record) ==
    /\ requests < MaxRequests
    /\ ppc = "idle"
    /\ requests' = requests + 1
    /\ IF ~\E r \in reports : r.id = id
       THEN /\ lastStatus' = 404
            /\ UNCHANGED patchVars
       ELSE LET existing == CHOOSE r \in reports : r.id = id
                data     == updateData(record, existing)
            IN  IF data.reportDate = Null
                THEN /\ lastStatus' = 400
                     /\ UNCHANGED patchVars
                ELSE /\ ppc' = "update"
                     /\ pId' = id
                     /\ pData' = data
                     /\ UNCHANGED lastStatus
    /\ UNCHANGED <<reports, snapshots, nextId, nextCode, uploadVars, dirtyBatch, dirtyUpload,
                   renderVars, parseVars, convertVars, totalsVars, generateVars, readVars>>

\* the catch has no branch for the unique-constraint error P2002
PatchUpdateNoConflictBranch ==
    /\ ppc = "update"
    /\ ppc' = "idle"
    /\ pData' = Null
    /\ IF ~\E r \in reports : r.id = pId
       THEN /\ lastStatus' = 500
            /\ UNCHANGED <<reports, dirtyBatch, dirtyUpload>>
       ELSE IF keyTaken(reports, pData.vehicleNo, pData.reportDate, pId)
       THEN /\ lastStatus' = 500
            /\ UNCHANGED <<reports, dirtyBatch, dirtyUpload>>
       ELSE /\ lastStatus' = 200
            /\ reports' = {IF r.id = pId THEN reportOf(r.id, pData, r.snapshotCode) ELSE r :
                             r \in reports}
            /\ OtherWrite
    /\ UNCHANGED <<snapshots, nextId, nextCode, uploadVars, pId, requests, renderVars, parseVars, convertVars, totalsVars, generateVars, readVars>>

\* PATCH: prisma.report.update and the response
PatchUpdate ==
    /\ ppc = "update"
    /\ ppc' = "idle"
    /\ pData' = Null
    /\ IF ~\E r \in reports : r.id = pId
       THEN /\ lastStatus' = 500
            /\ UNCHANGED <<reports, dirtyBatch, dirtyUpload>>
       ELSE IF keyTaken(reports, pData.vehicleNo, pData.reportDate, pId)
       THEN /\ lastStatus' = 409
            /\ UNCHANGED <<reports, dirtyBatch, dirtyUpload>>
       ELSE /\ lastStatus' = 200
            /\ reports' = {IF r.id = pId THEN reportOf(r.id, pData, r.snapshotCode) ELSE r :
                             r \in reports}
            /\ OtherWrite
    /\ UNCHANGED <<snapshots, nextId, nextCode, uploadVars, pId, requests, renderVars, parseVars, convertVars, totalsVars, generateVars, readVars>>

\* DELETE
Delete(id) ==
    /\ requests < MaxRequests
    /\ requests' = requests + 1
    /\ IF \E r \in reports : r.id = id
       THEN /\ lastStatus' = 200
            /\ reports' = {r \in reports : r.id # id}
            /\ OtherWrite
       ELSE /\ lastStatus' = 404
            /\ UNCHANGED <<reports, dirtyBatch, dirtyUpload>>
    /\ UNCHANGED <<snapshots, nextId, nextCode, uploadVars, patchVars, renderVars, parseVars, convertVars, totalsVars, generateVars, readVars>>

StoreNext ==
    \/ \E singleRecord \in SingleRecords : PostSingle(singleRecord)
    \/ \E rawRecords \in JsonBatches : PostJsonBatch(rawRecords)
    \/ \E n \in UploadSizes, kind \in UploadKinds : PostSpreadsheet(ParsedRows(n, kind))
    \/ PersistFirstBatch
    \/ PersistNextBatch
    \/ PersistFails
    \/ PersistRefresh
    \/ \E id \in 1..nextId, record \in PatchRecords : PatchRead(id, record)
    \/ PatchUpdate
    \/ \E id \in 1..nextId : Delete(id)

(***************************************************************************)
(* data/route.ts: the conversions of one report-date and one trip-count    *)
(* cell, as the ingestion applies them to a row                            *)
(***************************************************************************)
DayTexts == {<<"1">>, <<"5">>, <<"0", "5">>, <<"3", "1">>}

MonthTexts == {<<"1">>, <<"2">>, <<"1", "2">>}

DateSeparators == {<<"-">>, <<"/">>}

TwoDigitYears == {<<"0", "0">>, <<"2", "5">>, <<"6", "9">>, <<"7", "0">>, <<"9", "9">>}

YearTexts == TwoDigitYears \cup {<<"1", "2", "3">>, <<"2", "0", "2", "5">>}

\* day, separator, month, separator, year
DmyText(d, s1, m, s2, y) == d \o s1 \o m \o s2 \o y

\* the other kinds of date cell: empty, blank, a range, an Excel serial number,
\* ISO dates, a padded text, a text that is no date
OtherDateTexts ==
    { <<>>,
      <<" ", " ">>,
      <<"0", "1", "-", "0", "7", "-", "2", "0", "2", "5", " ", "-", " ",
        "3", "1", "-", "0", "7", "-", "2", "0", "2", "5">>,
      <<"4", "5", "8", "4", "3">>,
      <<"2", "0", "2", "5", "-", "0", "7", "-", "0", "5">>,
      <<"2", "0", "2", "5", "-", "7", "-", "5">>,
      <<" ", "5", "-", "1", "-", "2", "5", " ">>,
      <<"a", "b", "c">> }

DateInputs ==
    {DmyText(d, s1, m, s2, y) :
        d \in DayTexts, s1 \in DateSeparators, m \in MonthTexts, s2 \in DateSeparators,
        y \in YearTexts}
    \cup OtherDateTexts

\* trip-count cells: a count, a count with a unit, a negative count, a count
\* with a fraction, counts with stray dashes, texts without digits, no cell
TripInputs ==
    { <<"3">>,
      <<"1", "2", " ", "t", "r", "i", "p", "s">>,
      <<"-", "5">>,
      <<"2", ".", "5">>,
      <<"1", "-", "2">>,
      <<"-", "-", "4">>,
      <<"a", "b", "c">>,
      <<>>,
      Null }

\* a row's report-date and trip-count cells are read
InitConvert ==
    /\ InitServer
    /\ TotalsIdle
    /\ GenerateIdle
    /\ ReadIdle
    /\ cpc = "input"
    /\ dateIn \in DateInputs
    /\ dateOut = Null
    /\ tripsIn \in TripInputs
    /\ tripsOut = 0
    /\ distIn = Null
    /\ distOut = Null

\* const reportDate = normaliseDate(reportDateRaw)
NormaliseDateApply ==
    /\ cpc = "input"
    /\ dateOut' = normaliseDate(dateIn)
    /\ cpc' = "date"
    /\ UNCHANGED <<dateIn, tripsIn, tripsOut, distIn, distOut, renderVars, parseVars, storeVars, totalsVars, generateVars, readVars>>

\* tripCount: toTripCount(getCell(row, columnIndex.tripCount))
ToTripCountApply ==
    /\ cpc = "date"
    /\ tripsOut' = toTripCount(tripsIn)
    /\ cpc' = "done"
    /\ UNCHANGED <<dateIn, dateOut, tripsIn, distIn, distOut, renderVars, parseVars, storeVars, totalsVars, generateVars, readVars>>

ConvertNext ==
    \/ NormaliseDateApply
    \/ ToTripCountApply

\* the parts a distance cell is put together from: text before the numeral,
\* its whole part, its fraction and the text after it
DistancePrefixes == {<<>>, <<"a", "b", "c", " ">>, <<"-">>, <<"+">>, <<"k", "m", " ">>}

DistanceWholes == {<<>>, <<"0">>, <<"1", "2">>, <<"1", "2", "3">>}

DistanceFractions == {<<>>, <<".">>, <<".", "5">>, <<".", "4", "5">>}

DistanceSuffixes == {<<>>, <<" ", "k", "m">>, <<" ", "k", "m", " ", "e", "x", "t", "r", "a", " ", "7">>, <<"x">>}

DistanceParts == DistancePrefixes \X DistanceWholes \X DistanceFractions \X DistanceSuffixes

DistanceText(p) == p[1] \o p[2] \o p[3] \o p[4]

DistanceInputs == {DistanceText(p) : p \in DistanceParts} \cup {Null}

\* a row's trip-distance cell is read
InitDistance ==
    /\ InitServer
    /\ TotalsIdle
    /\ GenerateIdle
    /\ ReadIdle
    /\ cpc = "cell"
    /\ dateIn = <<>>
    /\ dateOut = Null
    /\ tripsIn = <<>>
    /\ tripsOut = 0
    /\ distIn \in DistanceInputs
    /\ distOut = Null

\* tripDistanceKm: toDistanceString(getCell(row, columnIndex.distance))
ToDistanceStringApply ==
    /\ cpc = "cell"
    /\ distOut' = toDistanceString(distIn)
    /\ cpc' = "distance"
    /\ UNCHANGED <<dateIn, dateOut, tripsIn, tripsOut, distIn, renderVars, parseVars, storeVars, totalsVars, generateVars, readVars>>

DistanceNext ==
    \/ ToDistanceStringApply

(***************************************************************************)
(* generate/route.ts: parseDistance and buildSummary, next to the          *)
(* renderer's total of the same rows                                       *)
(***************************************************************************)
\* parseDistance(value): the first numeral KM_MATCHER finds, in hundredths
parseDistance(value) ==
    IF value = Null \/ value = <<>> THEN 0
    ELSE LET match == MatchKm(value)
         IN  IF match = <<>> THEN 0
             ELSE LET num == parseFloat(match)
                  IN  IF num.finite THEN num.centi ELSE 0

\* the place of the vehicle in the map's insertion order, 0 when it is not there
entryIndex(vehicleMap, key) ==
    IF \E i \in 1..Len(vehicleMap) : vehicleMap[i].vehicleNumber = key
    THEN CHOOSE i \in 1..Len(vehicleMap) : vehicleMap[i].vehicleNumber = key
    ELSE 0

\* one iteration of the loop over rows: the vehicle's entry, made when missing,
\* with the row's distance and trips added
addRow(vehicleMap, row) ==
    LET at    == entryIndex(vehicleMap, row.vehicleNo)
        entry == IF at > 0 THEN vehicleMap[at]
                 ELSE [vehicleNumber |-> row.vehicleNo, area |-> row.area,
                       tankerType |-> row.tankerType,
                       transporterName |-> row.transporterName,
                       totalDistance |-> 0, totalTrips |-> 0]
        next  == [vehicleNumber |-> entry.vehicleNumber, area |-> entry.area,
                  tankerType |-> entry.tankerType,
                  transporterName |-> entry.transporterName,
                  totalDistance |-> entry.totalDistance + parseDistance(row.tripDistanceKm),
                  totalTrips |-> entry.totalTrips + row.tripCount]
    IN  IF at > 0 THEN [vehicleMap EXCEPT ![at] = next] ELSE Append(vehicleMap, next)

RECURSIVE vehicleMapOf(_)
vehicleMapOf(rows) ==
    IF rows = <<>> THEN <<>>
    ELSE CHOOSE after \in {addRow(before, rows[Len(rows)]) :
                               before \in {vehicleMapOf(SubSeq(rows, 1, Len(rows) - 1))}} : TRUE

RECURSIVE sumDistance(_)
sumDistance(vehicleReports) ==
    IF vehicleReports = <<>> THEN 0
    ELSE sumDistance(Tail(vehicleReports)) + Head(vehicleReports).totalDistance

RECURSIVE sumTrips(_)
sumTrips(vehicleReports) ==
    IF vehicleReports = <<>> THEN 0
    ELSE sumTrips(Tail(vehicleReports)) + Head(vehicleReports).totalTrips

\* buildSummary(rows).  Distances are carried in hundredths, so that
\* Number(x.toFixed(2)) leaves a sum of hundredths as it is.
buildSummary(rows) ==
    CHOOSE summary \in
        {[vehicleReports |-> vehicleReports,
          totalDistance  |-> sumDistance(vehicleReports),
          totalTrips     |-> sumTrips(vehicleReports)] :
            vehicleReports \in {vehicleMapOf(rows)}} : TRUE

\* the rows of the lists: two vehicles, and distance texts that begin with the
\* numeral, hold no numeral, or hold it after other words
TotalsVehicles == {VEHICLE_A, VEHICLE_B}

TotalsDistances ==
    { <<"1", "2", ".", "5", "0", " ", "k", "m">>,
      <<"n", "o", "t", " ", "a", " ", "n", "u", "m", "b", "e", "r">>,
      <<"7", ".", "5">>,
      <<"k", "m", " ", "5">> }

TotalsRow(vehicleNo, tripDistanceKm) ==
    [vehicleNo |-> vehicleNo, area |-> <<"N">>, tankerType |-> <<"T">>,
     transporterName |-> <<"X">>, reportDate |-> DATE_A,
     tripDistanceKm |-> tripDistanceKm, tripCount |-> 1]

TotalsRowKinds == {TotalsRow(v, d) : v \in TotalsVehicles, d \in TotalsDistances}

MaxTotalsRows == 3

TotalsInputs == UNION {[1..n -> TotalsRowKinds] : n \in 0..MaxTotalsRows}

\* a row list is handed to the renderer and to buildSummary
InitTotals ==
    /\ InitServer
    /\ ConvertIdle
    /\ GenerateIdle
    /\ ReadIdle
    /\ tpc = "input"
    /\ trows \in TotalsInputs
    /\ tcell = Null
    /\ tsummary = Null

\* the renderer computes totalKm and the sub-header cells
SubHeaderTotalApply ==
    /\ tpc = "input"
    /\ tcell' = subHeaderCells(trows).tripDistanceKm
    /\ tpc' = "pdf"
    /\ UNCHANGED <<trows, tsummary, renderVars, parseVars, storeVars, convertVars, generateVars, readVars>>

\* const summary = buildSummary(rows)
BuildSummaryApply ==
    /\ tpc = "pdf"
    /\ tsummary' = buildSummary(trows)
    /\ tpc' = "done"
    /\ UNCHANGED <<trows, tcell, renderVars, parseVars, storeVars, convertVars, generateVars, readVars>>

TotalsNext ==
    \/ SubHeaderTotalApply
    \/ BuildSummaryApply

(***************************************************************************)
(* generate/route.ts: POST                                                 *)
(***************************************************************************)
MaxGenerateRequests == 3

\* the sizes of the row sets findMany returns: none, one page, two pages
GenerateRowCounts == {0, 1, 2, ROWS_PER_PAGE + 1}

\* the rows come ordered by vehicleNo, then reportDate
GenerateRows(n) == MakeRows(n, 1)

otherGenerateVars == <<renderVars, parseVars, storeVars, convertVars, totalsVars, readVars>>

\* the request has no dateFrom, dateTo or generatedByEmail: 400
GenerateBadRequest ==
    /\ gpc \in {"idle", "responded"}
    /\ grequests < MaxGenerateRequests
    /\ grequests' = grequests + 1
    /\ gpc' = "responded"
    /\ gstatus' = 400
    /\ grows' = <<>>
    /\ gbuffer' = <<>>
    /\ ginvoked' = FALSE
    /\ gbase' = Len(pdfGenerations)
    /\ greq' = NoRequest
    /\ UNCHANGED <<pdfGenerations, otherGenerateVars>>

\* ensureUserByEmail or findMany throws: the catch answers 500
GenerateLookupFails ==
    /\ gpc \in {"idle", "responded"}
    /\ grequests < MaxGenerateRequests
    /\ grequests' = grequests + 1
    /\ gpc' = "responded"
    /\ gstatus' = 500
    /\ grows' = <<>>
    /\ gbuffer' = <<>>
    /\ ginvoked' = FALSE
    /\ gbase' = Len(pdfGenerations)
    /\ greq' = NoRequest
    /\ UNCHANGED <<pdfGenerations, otherGenerateVars>>

\* the row set is rendered whatever its size
GenerateFetchNoEmptyTest(request, rows) ==
    /\ gpc \in {"idle", "responded"}
    /\ grequests < MaxGenerateRequests
    /\ grequests' = grequests + 1
    /\ grows' = rows
    /\ greq' = request
    /\ gbuffer' = <<>>
    /\ gbase' = Len(pdfGenerations)
    /\ gpc' = "render"
    /\ gstatus' = 0
    /\ ginvoked' = TRUE
    /\ UNCHANGED <<pdfGenerations, otherGenerateVars>>

\* the request is valid and findMany returns rows: with none the answer is 404,
\* otherwise buildReportPdf is called and the handler waits for it
GenerateFetch(request, rows) ==
    /\ gpc \in {"idle", "responded"}
    /\ grequests < MaxGenerateRequests
    /\ grequests' = grequests + 1
    /\ grows' = rows
    /\ greq' = request
    /\ gbuffer' = <<>>
    /\ gbase' = Len(pdfGenerations)
    /\ IF Len(rows) = 0
       THEN /\ gpc' = "responded"
            /\ gstatus' = 404
            /\ ginvoked' = FALSE
       ELSE /\ gpc' = "render"
            /\ gstatus' = 0
            /\ ginvoked' = TRUE
    /\ UNCHANGED <<pdfGenerations, otherGenerateVars>>

\* buildReportPdf resolves with the document's bytes; the summary is built and
\* pdfGeneration.create is issued
GenerateRendered(titleH) ==
    /\ gpc = "render"
    /\ gbuffer' = pageLoop(NewDoc, grows, titleH, 0).pages
    /\ gpc' = "create"
    /\ UNCHANGED <<grows, gstatus, pdfGenerations, grequests, ginvoked, gbase, greq,
                   otherGenerateVars>>

\* buildReportPdf rejects: the catch answers 500
GenerateRenderFails ==
    /\ gpc = "render"
    /\ gpc' = "responded"
    /\ gstatus' = 500
    /\ UNCHANGED <<grows, gbuffer, pdfGenerations, grequests, ginvoked, gbase, greq,
                   otherGenerateVars>>

\* list.join(", ")
RECURSIVE join(_)
join(list) ==
    IF list = <<>> THEN <<>>
    ELSE IF Len(list) = 1 THEN list[1]
    ELSE list[1] \o <<",", " ">> \o join(Tail(list))

\* the record the handler creates
createPayload(verificationCode, request, rows, pdfBuffer) ==
    CHOOSE payload \in
        {[verificationCode      |-> verificationCode,
          dateFrom              |-> request.dateFrom,
          dateTo                |-> request.dateTo,
          filterVehicle         |-> IF request.vehicles # <<>> THEN join(request.vehicles) ELSE Null,
          filterArea            |-> request.area,
          filterMonth           |-> IF request.months # <<>> THEN join(request.months) ELSE Null,
          pdfBase64             |-> pdfBuffer,
          recordCount           |-> Len(rows),
          summaryVehicleReports |-> summary.vehicleReports,
          summaryTotalDistance  |-> summary.totalDistance,
          summaryTotalTrips     |-> summary.totalTrips,
          summaryVehicleCount   |-> Len(summary.vehicleReports)] :
            summary \in {buildSummary(rows)}} : TRUE

\* pdfGeneration.create resolves: the record is stored and the answer is 200
GenerateStored ==
    /\ gpc = "create"
    /\ pdfGenerations' = Append(pdfGenerations, createPayload(grequests, greq, grows, gbuffer))
    /\ gpc' = "responded"
    /\ gstatus' = 200
    /\ UNCHANGED <<grows, gbuffer, grequests, ginvoked, gbase, greq, otherGenerateVars>>

\* pdfGeneration.create rejects: the catch answers 500
GenerateCreateFails ==
    /\ gpc = "create"
    /\ gpc' = "responded"
    /\ gstatus' = 500
    /\ UNCHANGED <<grows, gbuffer, pdfGenerations, grequests, ginvoked, gbase, greq,
                   otherGenerateVars>>

GenerateNext ==
    \/ GenerateBadRequest
    \/ GenerateLookupFails
    \/ \E n \in GenerateRowCounts : GenerateFetch(WholeYearRequest, GenerateRows(n))
    \/ \E titleH \in TitleHeights : GenerateRendered(titleH)
    \/ GenerateRenderFails
    \/ GenerateStored
    \/ GenerateCreateFails

(***************************************************************************)
(* part_004 (the generate route with its date range applied in memory):    *)
(* the selection of the records a report is made of                        *)
(***************************************************************************)
\* the characters of the stored texts in code-point order
CodeOrder == <<" ", ",", "-", ".", "/">> \o DigitChars \o UpperChars \o LowerChars

CharCode(c) == CHOOSE i \in 1..Len(CodeOrder) : CodeOrder[i] = c

\* a < b as the database orders two texts
TextLess(a, b) ==
    \E i \in 1..(Len(a) + 1) :
        /\ i <= Len(b)
        /\ \A j \in 1..(i - 1) : a[j] = b[j]
        /\ (i > Len(a) \/ CharCode(a[i]) < CharCode(b[i]))

TextLeq(a, b) == a = b \/ TextLess(a, b)

\* s.startsWith(prefix)
startsWith(s, prefix) == Len(s) >= Len(prefix) /\ SubSeq(s, 1, Len(prefix)) = prefix

\* the days from 1970-01-01 to the civil date year-month-day
DaysFromCivil(year, month, day) ==
    LET y   == IF month <= 2 THEN year - 1 ELSE year
        era == y \div 400
        yoe == y - era * 400
        doy == (153 * (IF month > 2 THEN month - 3 ELSE month + 9) + 2) \div 5 + day - 1
        doe == yoe * 365 + yoe \div 4 - yoe \div 100 + doy
    IN  era * 146097 + doe - 719468

MINUTES_PER_DAY == 1440

\* new Date(year, monthIndex, day): midnight of the day in the server's zone, in
\* minutes from the epoch; a month index or a day beyond its range carries
\* over, and a year below 100 is taken in the century 19
LocalMidnight(year, monthIndex, day, tz) ==
    LET y0 == IF year < 100 THEN 1900 + year ELSE year
        y  == y0 + (monthIndex \div 12)
        m  == (monthIndex % 12) + 1
    IN  (DaysFromCivil(y, m, 1) + day - 1) * MINUTES_PER_DAY - tz

\* new Date("YYYY-MM-DD"): a date-only text is midnight UTC of that day; not
\* valid (NaN) for a text of another form
UtcMidnight(isoDate) ==
    LET m == MatchISO(isoDate)
    IN  IF m = <<>> \/ Len(isoDate) # 10 THEN [at |-> 0, valid |-> FALSE]
        ELSE [valid |-> TRUE,
              at    |-> DaysFromCivil(DigitsToNat(m[1]), DigitsToNat(m[2]), DigitsToNat(m[3]))
                            * MINUTES_PER_DAY]

\* dateStr.match(/^(\d{1,2})-(\d{1,2})-(\d{4})$/): the three groups, or <<>>
MatchDDMMYYYY(dateStr) ==
    LET m == MatchDMY(dateStr)
    IN  IF m = <<>> \/ SepPositions(dateStr, {"/"}) # {} \/ Len(m[3]) # 4 THEN <<>> ELSE m

\* parseDDMMYYYY(dateStr) in a server of zone tz: the instant, or not valid (null)
parseDDMMYYYY(dateStr, tz) ==
    LET parts == MatchDDMMYYYY(dateStr)
    IN  IF parts = <<>> THEN [at |-> 0, valid |-> FALSE]
        ELSE [valid |-> TRUE,
              at    |-> LocalMidnight(DigitsToNat(parts[3]), DigitsToNat(parts[2]) - 1,
                                      DigitsToNat(parts[1]), tz)]

\* the patterns buildWhereClause makes of one month key "YYYY-MM", as tests on
\* a reportDate
monthMatches(reportDate, monthKey) ==
    LET seps == SepPositions(monthKey, {"-"})
    IN  IF Cardinality(seps) # 1 THEN FALSE
        ELSE LET at       == CHOOSE i \in seps : TRUE
                 year     == SubSeq(monthKey, 1, at - 1)
                 month    == SubSeq(monthKey, at + 1, Len(monthKey))
                 digits   == LeadingDigits(month)
                 monthInt == NatToText(DigitsToNat(digits))
             IN  IF digits = <<>> THEN FALSE
                 ELSE \/ includes(reportDate, <<"-">> \o month \o <<"-">> \o year)
                      \/ (month[1] = "0" /\ includes(reportDate, <<"-">> \o monthInt \o <<"-">> \o year))
                      \/ startsWith(reportDate, year \o <<"-">> \o month \o <<"-">>)
                      \/ startsWith(reportDate, year \o <<"-">> \o monthInt \o <<"-">>)

\* the where clause buildWhereClause(dateFrom, dateTo, filters) of part_004: the
\* dates are not part of it
matchesWhere(report, request) ==
    /\ request.vehicles # <<>> => \E i \in 1..Len(request.vehicles) : report.vehicleNo = request.vehicles[i]
    /\ request.area # Null => report.area = request.area
    /\ request.months # <<>> => \E i \in 1..Len(request.months) : monthMatches(report.reportDate, request.months[i])

\* rowDate >= fromDate && rowDate <= toDate; a comparison with NaN is false
inRange(report, request, tz) ==
    \A rowDate \in {parseDDMMYYYY(report.reportDate, tz)} :
    \A fromDate \in {UtcMidnight(request.dateFrom)}, toDate \in {UtcMidnight(request.dateTo)} :
        /\ rowDate.valid
        /\ fromDate.valid
        /\ toDate.valid
        /\ rowDate.at >= fromDate.at
        /\ rowDate.at <= toDate.at

\* orderBy: [{ vehicleNo: "asc" }, { reportDate: "asc" }]
rowBefore(a, b) ==
    \/ TextLess(a.vehicleNo, b.vehicleNo)
    \/ (a.vehicleNo = b.vehicleNo /\ TextLess(a.reportDate, b.reportDate))
    \/ (a.vehicleNo = b.vehicleNo /\ a.reportDate = b.reportDate /\ a.id < b.id)

RECURSIVE orderBy(_)
orderBy(table) ==
    IF table = {} THEN <<>>
    ELSE LET first == CHOOSE r \in table : \A o \in table : o = r \/ rowBefore(r, o)
         IN  <<first>> \o orderBy(table \ {first})

\* the rows of the report: findMany with the where clause, ordered, then the
\* filter on the date range
generateRows(table, request, tz) ==
    SelectSeq(orderBy({r \in table : matchesWhere(r, request)}),
              LAMBDA r : inRange(r, request, tz))

\* a stored record
StoredRecord(id, vehicleNo, area, reportDate) ==
    reportOf(id, [vehicleNo |-> vehicleNo, area |-> area, tankerType |-> <<"W", "a", "t", "e", "r">>,
                  transporterName |-> <<"A", "c", "m", "e">>, reportDate |-> reportDate,
                  tripDistanceKm |-> <<"1", "0", ".", "0", "0", " ", "k", "m">>, tripCount |-> 1], 1)

AREA_NORTH == <<"N", "o", "r", "t", "h">>

AREA_SOUTH == <<"S", "o", "u", "t", "h">>

\* the records the tables of a selection are made of: the days around the two
\* ends of August 2025, and a day of August of another year
RecordPool ==
    { StoredRecord(1, VEHICLE_A, AREA_NORTH, <<"3", "1", "-", "0", "7", "-", "2", "0", "2", "5">>),
      StoredRecord(2, VEHICLE_A, AREA_NORTH, <<"0", "1", "-", "0", "8", "-", "2", "0", "2", "5">>),
      StoredRecord(3, VEHICLE_B, AREA_SOUTH, <<"1", "5", "-", "0", "8", "-", "2", "0", "2", "5">>),
      StoredRecord(4, VEHICLE_A, AREA_SOUTH, <<"3", "1", "-", "0", "8", "-", "2", "0", "2", "5">>),
      StoredRecord(5, VEHICLE_B, AREA_NORTH, <<"0", "1", "-", "0", "9", "-", "2", "0", "2", "5">>),
      StoredRecord(6, VEHICLE_B, AREA_NORTH, <<"0", "1", "-", "0", "8", "-", "2", "0", "2", "4">>) }

\* most records of a table
MaxTableSize == 2

Tables == {t \in SUBSET RecordPool : Cardinality(t) <= MaxTableSize}

DateRanges ==
    { << <<"2", "0", "2", "5", "-", "0", "8", "-", "0", "1">>, <<"2", "0", "2", "5", "-", "0", "8", "-", "3", "1">> >>,
      << <<"2", "0", "2", "5", "-", "0", "1", "-", "0", "1">>, <<"2", "0", "2", "5", "-", "1", "2", "-", "3", "1">> >> }

Requests ==
    { Request(range[1], range[2], vehicles, area, months) :
        range \in DateRanges, vehicles \in {<<>>, <<VEHICLE_A>>}, area \in {Null, AREA_NORTH},
        months \in {<<>>, << <<"2", "0", "2", "5", "-", "0", "8">> >>} }

\* the zones a server runs in, in minutes east of UTC: America/New_York in
\* winter, UTC, Asia/Kolkata
ZoneOffsets == {-300, 0, 330}

\* a generate request meets a table
InitSelect ==
    /\ InitServer
    /\ ConvertIdle
    /\ TotalsIdle
    /\ GenerateIdle
    /\ fpc = "input"
    /\ ftable \in Tables
    /\ freq \in Requests
    /\ ftz \in ZoneOffsets
    /\ frows = <<>>
    /\ vcode = 0
    /\ vstatus = 0
    /\ vsummary = NoSummary
    /\ vbytes = <<>>

\* let rows = await prisma.report.findMany(...); rows = rows.filter(...)
SelectApply ==
    /\ fpc = "input"
    /\ frows' = generateRows(ftable, freq, ftz)
    /\ fpc' = "selected"
    /\ UNCHANGED <<ftable, freq, ftz, vcode, vstatus, vsummary, vbytes, renderVars, parseVars,
                   storeVars, convertVars, totalsVars, generateVars>>

SelectNext ==
    \/ SelectApply

(***************************************************************************)
(* verify/[code]/route.ts and pdf/[code]/route.ts: the lookups by code     *)
(***************************************************************************)
\* text.split(","), the pieces in order
RECURSIVE splitComma(_)
splitComma(text) ==
    IF \A i \in 1..Len(text) : text[i] # ","
    THEN <<text>>
    ELSE LET at == CHOOSE i \in 1..Len(text) : text[i] = "," /\ \A j \in 1..(i - 1) : text[j] # ","
         IN  <<SubSeq(text, 1, at - 1)>> \o splitComma(SubSeq(text, at + 1, Len(text)))

\* filter && filter !== "all" ? filter.split(",").map(token => token.trim()).filter(Boolean) : []
filterTokens(filter) ==
    IF filter = Null \/ filter = <<>> \/ filter = <<"a", "l", "l">> THEN <<>>
    ELSE SelectSeq([i \in 1..Len(splitComma(filter)) |-> trim(splitComma(filter)[i])],
                   LAMBDA token : token # <<>>)

\* buildWhereClause(record) of the verify route, as a test on a stored record
verifyWhere(report, record) ==
    /\ TextLeq(record.dateFrom, report.reportDate)
    /\ TextLeq(report.reportDate, record.dateTo)
    /\ \A vehicleFilters \in {filterTokens(record.filterVehicle)} :
          vehicleFilters # <<>> =>
              \E i \in 1..Len(vehicleFilters) : report.vehicleNo = vehicleFilters[i]
    /\ ~(record.filterArea = Null \/ record.filterArea = <<>> \/ record.filterArea = <<"a", "l", "l">>)
          => report.area = record.filterArea
    /\ \A monthFilters \in {filterTokens(record.filterMonth)} :
          monthFilters # <<>> =>
              \E i \in 1..Len(monthFilters) : startsWith(report.reportDate, monthFilters[i] \o <<"-">>)

\* the summary computed from the Report table as it is now
recomputedSummary(record, table) ==
    CHOOSE summary \in
        {[vehicleReports      |-> vehicleReports,
          totalDistance       |-> sumDistance(vehicleReports),
          totalTrips          |-> sumTrips(vehicleReports),
          totalVehicleReports |-> Len(vehicleReports)] :
            vehicleReports \in {vehicleMapOf(orderBy({r \in table : verifyWhere(r, record)}))}} : TRUE

\* the earlier variant of the route (part_003): the summary is always computed
\* from the Report table as it is now
summaryOfRecomputed(record, table) == recomputedSummary(record, table)

\* the summary the route answers with for a record it found: the stored one
\* when it lists a vehicle, otherwise the one computed from the Report table
summaryOf(record, table) ==
    IF record.summaryVehicleReports # <<>>
    THEN [vehicleReports      |-> record.summaryVehicleReports,
          totalDistance       |-> record.summaryTotalDistance,
          totalTrips          |-> record.summaryTotalTrips,
          totalVehicleReports |-> record.summaryVehicleCount]
    ELSE recomputedSummary(record, table)

\* prisma.pdfGeneration.findUnique({ where: { verificationCode: code } }): the
\* places of the table that hold the code, none or one
findUnique(generations, code) ==
    {k \in 1..Len(generations) : generations[k].verificationCode = code}

\* GET /api/reports/verify/[code]; code 0 is the missing code
verifyGet(code, generations, table) ==
    IF code = 0 THEN [summary |-> NoSummary, status |-> 400]
    ELSE IF findUnique(generations, code) = {} THEN [summary |-> NoSummary, status |-> 404]
    ELSE [status  |-> 200,
          summary |-> summaryOf(generations[CHOOSE k \in findUnique(generations, code) : TRUE], table)]

\* GET /api/reports/pdf/[code]
pdfGet(code, generations) ==
    IF code = 0 THEN [status |-> 400, bytes |-> <<>>]
    ELSE IF findUnique(generations, code) = {} THEN [status |-> 404, bytes |-> <<>>]
    ELSE LET record == generations[CHOOSE k \in findUnique(generations, code) : TRUE]
         IN  IF record.pdfBase64 = <<>> THEN [status |-> 404, bytes |-> <<>>]
             ELSE [status |-> 200, bytes |-> record.pdfBase64]

\* a verify request is answered
VerifyGet(code) ==
    /\ vcode' = code
    /\ vstatus' = verifyGet(code, pdfGenerations, reports).status
    /\ vsummary' = verifyGet(code, pdfGenerations, reports).summary
    /\ vbytes' = <<>>
    /\ UNCHANGED <<fpc, ftable, freq, ftz, frows, renderVars, parseVars, storeVars, convertVars,
                   totalsVars, generateVars>>

\* a download request is answered
PdfGet(code) ==
    /\ vcode' = code
    /\ vstatus' = pdfGet(code, pdfGenerations).status
    /\ vbytes' = pdfGet(code, pdfGenerations).bytes
    /\ vsummary' = NoSummary
    /\ UNCHANGED <<fpc, ftable, freq, ftz, frows, renderVars, parseVars, storeVars, convertVars,
                   totalsVars, generateVars>>

\* most writes to the record store and most generate requests while the two
\* run together
MaxVerifyWrites == 2

MaxVerifyGenerations == 2

\* the service as a whole: the record store is written while reports are
\* generated from it and looked up by code
VerifyNext ==
    \/ \E singleRecord \in SingleRecords : requests < MaxVerifyWrites /\ PostSingle(singleRecord)
    \/ \E id \in 1..nextId, record \in PatchRecords : requests < MaxVerifyWrites /\ PatchRead(id, record)
    \/ PatchUpdate
    \/ \E id \in 1..nextId : requests < MaxVerifyWrites /\ Delete(id)
    \/ \E tz \in ZoneOffsets :
          /\ grequests < MaxVerifyGenerations
          /\ GenerateFetch(WholeYearRequest, generateRows(reports, WholeYearRequest, tz))
    \/ \E titleH \in {14} : GenerateRendered(titleH)
    \/ GenerateRenderFails
    \/ GenerateStored
    \/ GenerateCreateFails
    \/ \E code \in 0..MaxVerifyGenerations : VerifyGet(code)
    \/ \E code \in 0..MaxVerifyGenerations : PdfGet(code)

(***************************************************************************)
(* Specifications                                                          *)
(***************************************************************************)
\* most logo reads counted
MaxLogoReads == 2

\* one render at a time
SeqRenderNext ==
    \/ \E n \in 0..MaxRows, kind \in RowKinds, h \in TitleHeights : RenderCall(1, n, kind, h)
    \/ RenderImported(1) /\ logoReads < MaxLogoReads
    \/ RenderLogoRead(1)
    \/ RenderLogoFailed(1)
    \/ RenderLogoCached(1)
    \/ RenderDrawn(1)
    \/ RenderQrFailed(1)
    \/ RenderReturn(1)

SpecRender ==
    Init /\ [][SeqRenderNext]_vars

\* the row counts of the renders that run concurrently: none, one, two pages
ConcRowCounts == {0, 1, ROWS_PER_PAGE + 1}

\* the title height of the renders that run concurrently
ConcTitleHeights == {14}

\* buildReportPdf calls running concurrently in one process, interleaved at
\* their awaits
ConcRenderNext ==
    \/ \E c \in Calls, n \in ConcRowCounts, kind \in RowKinds, h \in ConcTitleHeights :
          RenderCall(c, n, kind, h)
    \/ \E c \in Calls : RenderImported(c) /\ logoReads < MaxLogoReads
    \/ \E c \in Calls : RenderLogoRead(c)
    \/ \E c \in Calls : RenderLogoFailed(c)
    \/ \E c \in Calls : RenderLogoCached(c)
    \/ \E c \in Calls : RenderDrawn(c)
    \/ \E c \in Calls : RenderQrFailed(c)
    \/ \E c \in Calls : RenderReturn(c)

SpecRenderConcurrent ==
    Init /\ [][ConcRenderNext]_vars

SpecConvert ==
    InitConvert /\ [][ConvertNext]_vars

SpecDistance ==
    InitDistance /\ [][DistanceNext]_vars

SpecSelect ==
    InitSelect /\ [][SelectNext]_vars

SpecVerify ==
    Init /\ [][VerifyNext]_vars

SpecTotals ==
    InitTotals /\ [][TotalsNext]_vars

SpecGenerate ==
    Init /\ [][GenerateNext]_vars

SpecParse ==
    Init /\ [][ParseNext]_vars

SpecStore ==
    Init /\ [][StoreNext]_vars

(***************************************************************************)
(* Claims about the renderer                                               *)
(***************************************************************************)
IsRowOp(o) == o.op = "row"

RowOpsOf(page) == SelectSeq(page.ops, IsRowOp)

RECURSIVE AllRowOps(_)
AllRowOps(pages) ==
    IF pages = <<>> THEN <<>>
    ELSE AllRowOps(SubSeq(pages, 1, Len(pages) - 1)) \o RowOpsOf(pages[Len(pages)])

CountOps(page, kind) == Cardinality({i \in 1..Len(page.ops) : page.ops[i].op = kind})

Finished(c) == rpc[c] = "done"

\* ceil(n / 21), at least 1, stated without the renderer's arithmetic
ExpectedPages(n) == CHOOSE p \in 1..(n + 1) : (n = 0 /\ p = 1) \/ (n > 0 /\ 21 * (p - 1) < n /\ n <= 21 * p)

\* C6: a finished render of n rows has exactly max(1, ceil(n/21)) pages, whatever
\* the rows hold; 0, 1, 21, 22, 42, 43 rows give 1, 1, 1, 2, 2, 3 pages
C6_PageCount ==
    \A c \in Calls : Finished(c) =>
        LET n == Len(rrows[c])
            p == Len(rresult[c])
        IN  /\ p = ExpectedPages(n)
            /\ (n \in {0, 1, 21} => p = 1)
            /\ (n \in {22, 42} => p = 2)
            /\ (n = 43 => p = 3)

C6_Witness == \E c \in Calls : Finished(c) /\ Len(rrows[c]) = 43 /\ Len(rresult[c]) = 3

\* C7: page p (from 0) shows exactly rows[21p .. min(21p+21, n)-1], in input order
\* and unchanged, each numbered with its input index + 1; no page shows more than
\* 21 rows, every page but the last shows 21, and all pages together show every
\* input row once
C7_PageSlices ==
    \A c \in Calls : Finished(c) =>
        LET rows  == rrows[c]
            n     == Len(rows)
            pages == rresult[c]
        IN  /\ \A k \in 1..Len(pages) :
                 LET shown == RowOpsOf(pages[k])
                     first == 21 * (k - 1)
                 IN  /\ Len(shown) = Max(0, Min(first + 21, n) - first)
                     /\ Len(shown) <= 21
                     /\ (k < Len(pages) => Len(shown) = 21)
                     /\ \A j \in 1..Len(shown) :
                          /\ shown[j].row = rows[first + j]
                          /\ shown[j].text = NatToText(first + j)
            /\ LET all == AllRowOps(pages)
               IN  /\ Len(all) = n
                   /\ \A i \in 1..n : all[i].row = rows[i]

C7_Witness ==
    \E c \in Calls :
        /\ Finished(c) /\ Len(rrows[c]) = 43 /\ Len(rresult[c]) = 3
        /\ rrows[c][1].reportDate # rrows[c][2].reportDate
        /\ rrows[c] = MakeRows(43, 3)
        /\ Len(RowOpsOf(rresult[c][3])) = 1

OpRank(kind) ==
    CASE kind = "firstPageHeader" -> 1
      [] kind = "tableHeader"     -> 2
      [] kind = "subHeader"       -> 3
      [] kind = "row"             -> 4
      [] kind = "footer"          -> 5

\* C8: the k-th page of the document carries the footer "Page k of N"; on each
\* page the operations come in the order first-page header, table header,
\* sub-header, rows, footer; the first-page header and the sub-header occur on
\* page 1 only; every page has exactly one table header and one footer; on pages
\* 2..N the table header is drawn at the page's top margin
C8_DrawOrder ==
    \A c \in Calls : Finished(c) =>
        LET pages == rresult[c]
            N     == Len(pages)
        IN  \A k \in 1..N :
              LET ops == pages[k].ops
              IN  /\ \A i \in 1..(Len(ops) - 1) : OpRank(ops[i].op) <= OpRank(ops[i + 1].op)
                  /\ CountOps(pages[k], "tableHeader") = 1
                  /\ CountOps(pages[k], "footer") = 1
                  /\ CountOps(pages[k], "firstPageHeader") = (IF k = 1 THEN 1 ELSE 0)
                  /\ (k > 1 => CountOps(pages[k], "subHeader") = 0)
                  /\ ops[Len(ops)].op = "footer"
                  /\ ops[Len(ops)].text =
                        <<"P", "a", "g", "e", " ">> \o NatToText(k) \o <<" ", "o", "f", " ">>
                            \o NatToText(N)
                  /\ (k > 1 => ops[1].op = "tableHeader" /\ ops[1].y = pages[k].margin)

C8_Witness ==
    \E c \in Calls :
        /\ Finished(c) /\ Len(rresult[c]) = 3
        /\ rresult[c][3].ops[1].op = "tableHeader"
        /\ rresult[c][1].ops[3].op = "subHeader"

\* C9: with at least one row the sub-header is drawn once, on page 1; with no row
\* it is drawn nowhere and the render still yields one page holding the
\* first-page header, the table header and the footer
C9_SubHeader ==
    \A c \in Calls : Finished(c) =>
        LET pages == rresult[c]
            n     == Len(rrows[c])
        IN  /\ CountOps(pages[1], "subHeader") = (IF n > 0 THEN 1 ELSE 0)
            /\ \A k \in 2..Len(pages) : CountOps(pages[k], "subHeader") = 0
            /\ (n = 0 =>
                  /\ Len(pages) = 1
                  /\ Len(pages[1].ops) = 3
                  /\ pages[1].ops[1].op = "firstPageHeader"
                  /\ pages[1].ops[2].op = "tableHeader"
                  /\ pages[1].ops[3].op = "footer")

C9_Witness == \E c \in Calls : Finished(c) /\ Len(rrows[c]) = 0 /\ Len(rresult[c]) = 1

\* C10: the row with global index i (from 0) is white when i is even and light
\* gray when i is odd, so consecutive rows differ, across a page break as well
C10_RowBanding ==
    \A c \in Calls : Finished(c) =>
        LET all == AllRowOps(rresult[c])
        IN  /\ \A i \in 1..Len(all) :
                 all[i].bg = (IF (i - 1) % 2 = 0 THEN "#ffffff" ELSE "#f5f5f5")
            /\ \A i \in 1..(Len(all) - 1) : all[i].bg # all[i + 1].bg

C10_Witness ==
    \E c \in Calls :
        /\ Finished(c) /\ Len(rresult[c]) >= 2
        /\ LET last  == RowOpsOf(rresult[c][1])[21]
               first == RowOpsOf(rresult[c][2])[1]
           IN  last.text = <<"2", "1">> /\ first.text = <<"2", "2">> /\ last.bg # first.bg

\* the call has a document: it is past the import and has not returned
HasDoc(c) == rpc[c] \in {"logoRead", "logoCached", "qr", "done", "rejected"}

\* some draw operation was issued on the call's document
HasDrawn(c) == HasDoc(c) /\ \E k \in 1..Len(rdoc[c].pages) : rdoc[c].pages[k].ops # <<>>

\* C11: a call has drawn only when its logo load and its QR encoding are both
\* over (the logo bytes are there and the call is through the page loop); a
\* rejected call has drawn nothing and has no buffer; a buffer, when there is
\* one, belongs to a finished call and holds all its pages and rows
C11_AssetsBeforeDraw ==
    \A c \in Calls :
        /\ HasDrawn(c) => (rpc[c] = "done" /\ cachedLogo = LogoBytes)
        /\ rpc[c] # "done" => rresult[c] = Null
        /\ rpc[c] = "rejected" => ~HasDrawn(c)
        /\ rpc[c] = "done" =>
              /\ cachedLogo = LogoBytes
              /\ Len(rresult[c]) = ExpectedPages(Len(rrows[c]))
              /\ Len(AllRowOps(rresult[c])) = Len(rrows[c])

\* the QR encoding failed after the logo was loaded, for a report with rows
C11_Witness ==
    /\ rpc[1] = "rejected"
    /\ cachedLogo = LogoBytes
    /\ Len(rrows[1]) = 22
    /\ rresult[1] = Null
    /\ ~HasDrawn(1)

RunAlone(rows, titleH) == pageLoop(NewDoc, rows, titleH, 0)

\* C13: whatever the other call did in between, a finished call's document (its
\* pages, their row slices and draw operations, and its cursor) is the one the
\* same rows and title give when the call runs alone, and a call that has not
\* reached the page loop has drawn nothing
C13_CallsIndependent ==
    \A c \in Calls :
        /\ Finished(c) =>
              /\ rdoc[c] = RunAlone(rrows[c], rtitleH[c])
              /\ rresult[c] = RunAlone(rrows[c], rtitleH[c]).pages
              /\ Len(rresult[c]) = ExpectedPages(Len(rrows[c]))
        /\ rpc[c] \in {"logoRead", "logoCached", "qr"} => rdoc[c] = NewDoc

\* both calls passed the cache test before either read ended, and both finished
C13_Witness ==
    /\ rpc[1] = "done"
    /\ rpc[2] = "done"
    /\ logoReads = 2
    /\ Len(rrows[1]) = 22
    /\ Len(rrows[2]) = 1
    /\ Len(rresult[1]) = 2
    /\ Len(rresult[2]) = 1

\* the sub-header operations of a finished call, in drawing order
SubHeaderOps(c) ==
    LET ops == rresult[c][1].ops
    IN  SelectSeq(ops, LAMBDA o : o.op = "subHeader")

\* the number a distance text stands for, in hundredths of a kilometre, 0 for
\* a text that is not a number
KmOf(text) ==
    CASE text = <<"1", "2", ".", "5", "0", " ", "k", "m">> -> 1250
      [] text = <<"7", ".", "5">>                          -> 750
      [] text = <<"0", " ", "k", "m">>                     -> 0
      [] OTHER                                             -> 0

RECURSIVE SumSeq(_)
SumSeq(ns) == IF ns = <<>> THEN 0 ELSE Head(ns) + SumSeq(Tail(ns))

\* hundredths written with two decimals and the km suffix
KmText(centi) ==
    NatToText(centi \div 100) \o <<".">> \o NatToText((centi % 100) \div 10)
        \o NatToText(centi % 10) \o <<" ", "k", "m">>

\* C17: the distance cell of the sub-header is the sum of the rows' distances,
\* a text that is not a number counting as 0, written with two decimals and " km"
C17_TotalDistance ==
    \A c \in Calls : (Finished(c) /\ rrows[c] # <<>>) =>
        /\ Len(SubHeaderOps(c)) = 1
        /\ SubHeaderOps(c)[1].row.tripDistanceKm =
              KmText(SumSeq([i \in 1..Len(rrows[c]) |-> KmOf(rrows[c][i].tripDistanceKm)]))

\* rows holding "not a number", "7.5", "0 km" and "12.50 km" gave "20.00 km"
C17_Witness ==
    /\ Finished(1)
    /\ Len(rrows[1]) = 4
    /\ {rrows[1][i].tripDistanceKm : i \in 1..4} = {DistanceTexts[i] : i \in 1..4}
    /\ SubHeaderOps(1)[1].row.tripDistanceKm = <<"2", "0", ".", "0", "0", " ", "k", "m">>

\* C18: the trip-count cell of the sub-header is the sum of the rows' tripCount
C18_TotalTrips ==
    \A c \in Calls : (Finished(c) /\ rrows[c] # <<>>) =>
        /\ Len(SubHeaderOps(c)) = 1
        /\ SubHeaderOps(c)[1].row.tripCount =
              SumSeq([i \in 1..Len(rrows[c]) |-> rrows[c][i].tripCount])

\* five rows with trip counts 1, 2, 0, 1 and 2: the cell shows 6
C18_Witness ==
    /\ Finished(1)
    /\ Len(rrows[1]) = 5
    /\ [i \in 1..5 |-> rrows[1][i].tripCount] = <<1, 2, 0, 1, 2>>
    /\ SubHeaderOps(1)[1].row.tripCount = 6

(***************************************************************************)
(* Claims about the conversions                                            *)
(***************************************************************************)
\* two digits, a dash, two digits, a dash, four digits
IsDDMMYYYY(t) ==
    /\ Len(t) = 10
    /\ \A i \in {1, 2, 4, 5, 7, 8, 9, 10} : IsDigit(t[i])
    /\ t[3] = "-"
    /\ t[6] = "-"

DateConverted == cpc \in {"date", "done"}

\* C14: what normaliseDate returned is null or has the shape DD-MM-YYYY
C14_DateShape ==
    DateConverted => (dateOut = Null \/ IsDDMMYYYY(dateOut))

\* the century the claim gives a two-digit year
CenturyOf(yy) ==
    IF yy \in {<<"7", "0">>, <<"9", "9">>} THEN <<"1", "9">> ELSE <<"2", "0">>

\* a day or month of one or two digits, with a leading zero when it has one
ZeroPadded(t) == IF Len(t) = 1 THEN <<"0">> \o t ELSE t

\* C15: a D-M-Y or D/M/Y text with a two-digit year yy gives the zero-padded
\* day and month and the year 19yy when yy >= 70, 20yy otherwise
C15_TwoDigitYear ==
    DateConverted =>
        \A d \in DayTexts, s1 \in DateSeparators, m \in MonthTexts, s2 \in DateSeparators,
           yy \in TwoDigitYears :
            dateIn = DmyText(d, s1, m, s2, yy) =>
                dateOut = ZeroPadded(d) \o <<"-">> \o ZeroPadded(m) \o <<"-">> \o CenturyOf(yy) \o yy

\* "1/2/99" was converted and gave "01-02-1999"
C15_Witness ==
    /\ DateConverted
    /\ dateIn = <<"1", "/", "2", "/", "9", "9">>
    /\ dateOut = <<"0", "1", "-", "0", "2", "-", "1", "9", "9", "9">>

\* C16: the trip count of a converted row is an integer that is not negative
C16_TripCountNatural ==
    cpc = "done" => tripsOut \in Nat

\* the hundredths a cell's parts spell, read off the parts: the numeral made of
\* the whole part and the fraction if it has a digit, else the first numeral
\* of the text after it, else none (-1 stands for "no numeral")
WholeCenti(w) == IF w = <<>> THEN 0 ELSE DigitsToNat(w) * 100

FractionCenti(f) ==
    IF Len(f) < 2 THEN 0
    ELSE IF Len(f) = 2 THEN DigitVal(f[2]) * 10
    ELSE DigitVal(f[2]) * 10 + DigitVal(f[3])

PartsHaveNumeral(p) == p[2] # <<>> \/ Len(p[3]) >= 2

SuffixCenti(x) == IF x # <<>> /\ IsDigit(x[Len(x)]) THEN DigitVal(x[Len(x)]) * 100 ELSE -1

\* the text "<v> km" for a value in hundredths, written with exactly 2 decimals
TwoDecimalsKm(sign, c) ==
    sign \o NatToText(c \div 100) \o <<".", DigitChars[((c % 100) \div 10) + 1], DigitChars[(c % 10) + 1], " ", "k", "m">>

ExpectedDistance(p) ==
    IF PartsHaveNumeral(p)
    THEN LET c == WholeCenti(p[2]) + FractionCenti(p[3])
         IN  TwoDecimalsKm(IF p[1] = <<"-">> /\ c > 0 THEN <<"-">> ELSE <<>>, c)
    ELSE IF SuffixCenti(p[4]) >= 0 THEN TwoDecimalsKm(<<>>, SuffixCenti(p[4]))
    ELSE <<"0", " ", "k", "m">>

\* C23: toDistanceString returns "<v> km" where v is the first signed or
\* unsigned decimal numeral of the input text written with exactly 2
\* decimals, and "0 km" when the input holds no numeral or is null
C23_DistanceString ==
    cpc = "distance" =>
        /\ distIn = Null => distOut = <<"0", " ", "k", "m">>
        /\ \A p \in DistanceParts : distIn = DistanceText(p) => distOut = ExpectedDistance(p)

C23_Witness ==
    /\ cpc = "distance"
    /\ distIn = <<"a", "b", "c", " ", "1", "2", ".", "5", " ", "k", "m", " ", "e", "x", "t", "r", "a", " ", "7">>
    /\ distOut = <<"1", "2", ".", "5", "0", " ", "k", "m">>

GenerateStoredOne == Len(pdfGenerations) = gbase + 1

\* C20: a request adds at most one PdfGeneration record, and only when
\* buildReportPdf was called on a row set that is not empty and returned the
\* whole document, which is the one stored; with no rows the renderer is not
\* called, nothing is stored and the answer is 404; when the render fails
\* nothing is stored and the answer is the failure
C20_StoreAfterRender ==
    /\ Len(pdfGenerations) \in {gbase, gbase + 1}
    /\ GenerateStoredOne =>
          /\ gpc = "responded"
          /\ gstatus = 200
          /\ ginvoked
          /\ grows # <<>>
          /\ gbuffer # <<>>
          /\ Len(gbuffer) = ExpectedPages(Len(grows))
          /\ Len(AllRowOps(gbuffer)) = Len(grows)
          /\ pdfGenerations[Len(pdfGenerations)].pdfBase64 = gbuffer
          /\ pdfGenerations[Len(pdfGenerations)].recordCount = Len(grows)
    /\ \A i \in 1..Len(pdfGenerations) :
          /\ pdfGenerations[i].recordCount > 0
          /\ Len(pdfGenerations[i].pdfBase64) = ExpectedPages(pdfGenerations[i].recordCount)
    /\ (gpc = "responded" /\ gstatus = 404) => (grows = <<>> /\ ~ginvoked /\ ~GenerateStoredOne)
    /\ (gpc = "responded" /\ grows = <<>>) => (~ginvoked /\ gstatus \in {400, 404, 500})
    /\ (gpc = "responded" /\ ginvoked /\ gbuffer = <<>>) => (gstatus = 500 /\ ~GenerateStoredOne)
    /\ gpc \in {"render", "create"} => ~GenerateStoredOne

\* after a report of 22 rows was stored, a request whose render failed left
\* the table as it was
C20_Witness ==
    /\ Len(pdfGenerations) = 1
    /\ pdfGenerations[1].recordCount = 22
    /\ gbase = 1
    /\ gpc = "responded"
    /\ gstatus = 500
    /\ ginvoked
    /\ gbuffer = <<>>
    /\ grequests = 2

(***************************************************************************)
(* Claims about the ingestion                                              *)
(***************************************************************************)
\* the rows of a sheet with their cells trimmed
RECURSIVE TrimmedRows(_)
TrimmedRows(table) ==
    IF table = <<>> THEN <<>>
    ELSE <<trimRow(Head(table)) \o <<>>>> \o TrimmedRows(Tail(table))

\* sheet s as its scan reads it: its rows with cells trimmed (rows from 1), the
\* position of the row taken as header (0 when none yet) and the columns found there
SheetOf(s) ==
    [rows |-> TrimmedRows(workbook[s]), hp |-> headerIndex[s] + 1, cols |-> columnIndex[s]]

DateCell(sh, i) == getCell(sh.rows[i], sh.cols.reportDate)

AfterHeader(sh, i) == sh.hp > 0 /\ i > sh.hp

IsRepeatedHeader(sh, i) ==
    normalizeHeader(DateCell(sh, i)) = <<"r", "e", "p", "o", "r", "t", "d", "a", "t", "e">>

HasRangeDate(sh, i) == includes(DateCell(sh, i), <<" ", "-", " ">>)

\* a context row: read after the header, not blank, not a repeated header, its
\* date cell a range
IsContextRow(sh, i) ==
    /\ AfterHeader(sh, i)
    /\ ~isBlankRow(sh.rows[i])
    /\ ~IsRepeatedHeader(sh, i)
    /\ HasRangeDate(sh, i)

\* the most recent context row before row i, 0 when there is none
LastContextRow(sh, i) ==
    LET cs == {j \in 1..(i - 1) : IsContextRow(sh, j)}
    IN  IF cs = {} THEN 0 ELSE CHOOSE j \in cs : \A k \in cs : j >= k

\* the value row i should carry in column col
Resolved(sh, i, col) ==
    LET own == getCell(sh.rows[i], sh.cols[col])
    IN  IF own # <<>> THEN own
        ELSE LET c == LastContextRow(sh, i)
             IN  IF c = 0 THEN <<>> ELSE getCell(sh.rows[c], sh.cols[col])

\* a row that must yield a record
IsValidDataRow(sh, i) ==
    /\ AfterHeader(sh, i)
    /\ ~isBlankRow(sh.rows[i])
    /\ ~IsRepeatedHeader(sh, i)
    /\ ~HasRangeDate(sh, i)
    /\ normaliseDate(DateCell(sh, i)) # Null
    /\ Resolved(sh, i, "vehicle") # <<>>

\* every record emitted so far with the sheet and row (from 1) it came from
Emitted ==
    [k \in 1..(Len(allRecords) + Len(records)) |->
        IF k <= Len(allRecords)
        THEN [rec |-> allRecords[k], sheet |-> allSrcs[k][1], row |-> allSrcs[k][2] + 1]
        ELSE [rec |-> records[k - Len(allRecords)], sheet |-> Len(workbook),
              row |-> srcs[k - Len(allRecords)] + 1]]

\* what parseWorkbook has emitted: everything, once it has returned (the last
\* sheet's records are then part of allRecords)
EmittedNow == IF wpc = "returned" THEN SubSeq(Emitted, 1, Len(allRecords)) ELSE Emitted

Scanning == wpc \in {"scan", "returned"}

C4_RangeRowIsContext ==
    Scanning =>
        \A em \in {EmittedNow} :
            \A s \in 1..Len(workbook) : \A sh \in {SheetOf(s)} :
            \A i \in 1..Len(workbook[s]) :
              (AfterHeader(sh, i) /\ HasRangeDate(sh, i)) =>
                  /\ normaliseDate(DateCell(sh, i)) = Null
                  /\ trace[s][i] = "context"
                  /\ \A k \in 1..Len(em) : ~(em[k].sheet = s /\ em[k].row = i)

\* C4 as amended: such a row takes the context-row branch unless its date cell,
\* lower-cased and stripped of non-alphanumerics, is "reportdate", when it is
\* skipped as a repeated header; normaliseDate gives null for the cell and no
\* record is emitted for the row either way.  The context holds the row's cells
\* right after a context row was read.
C4_RangeRowNeverEmits ==
    Scanning =>
        \A em \in {EmittedNow} :
            \A s \in 1..Len(workbook) : \A sh \in {SheetOf(s)} :
            \A i \in 1..Len(workbook[s]) :
                  (AfterHeader(sh, i) /\ HasRangeDate(sh, i)) =>
                  /\ normaliseDate(DateCell(sh, i)) = Null
                  /\ IF IsRepeatedHeader(sh, i)
                     THEN trace[s][i] = "repeatedHeader"
                     ELSE /\ trace[s][i] = "context"
                          /\ (wpc = "scan" /\ s = Len(workbook) /\ i = Len(workbook[s]) =>
                                /\ context.captured
                                /\ context.vehicleNo = getCell(sh.rows[i], sh.cols.vehicle)
                                /\ context.area = getCell(sh.rows[i], sh.cols.area))
                  /\ \A k \in 1..Len(em) : ~(em[k].sheet = s /\ em[k].row = i)

C4_Witness ==
    /\ wpc = "scan"
    /\ workbook = << <<HeaderRow1, ContextRow1, DashedHeaderRow>> >>
    /\ trace = << <<"header", "context", "repeatedHeader">> >>
    /\ context.vehicleNo = <<"D", "L", "1", "A", "B", "1", "2", "3", "4">>
    /\ records = <<>>

\* C5: the records emitted are exactly the valid data rows (read after the
\* header, not blank, not a repeated header, not a context row, date
\* normalisable, vehicle resolved), in row order within a sheet and sheet after
\* sheet; rows dropped before a valid row do not keep it from being emitted
C5_EmittedSubsequence ==
    Scanning =>
        \A em \in {EmittedNow} :
            /\ \A k \in 1..(Len(em) - 1) :
                 \/ em[k].sheet < em[k + 1].sheet
                 \/ (em[k].sheet = em[k + 1].sheet /\ em[k].row < em[k + 1].row)
            /\ \A s \in 1..Len(workbook) : \A sh \in {SheetOf(s)} :
               \A i \in 1..Len(workbook[s]) :
                 IsValidDataRow(sh, i)
                     <=> \E k \in 1..Len(em) : em[k].sheet = s /\ em[k].row = i
            /\ \A k \in 1..Len(em) :
                 /\ em[k].sheet \in 1..Len(workbook)
                 /\ em[k].row \in 1..Len(workbook[em[k].sheet])
                 /\ em[k].rec.reportDate =
                      normaliseDate(DateCell(SheetOf(em[k].sheet), em[k].row))

\* a row with a malformed date is dropped and the valid row after it is emitted
C5_Witness ==
    /\ wpc = "returned"
    /\ workbook = << <<HeaderRow1, DataRowBadDate, DataRowOwn>> >>
    /\ trace = << <<"header", "badDate", "emit">> >>
    /\ Len(allRecords) = 1
    /\ allRecords[1].area = <<"S", "o", "u", "t", "h">>
    /\ allSrcs = << <<1, 2>> >>

\* some cell of the row is one of the labels, lower-cased and stripped of what
\* is not a letter or digit
HasLabel(row, labels) ==
    \E i \in 1..Len(row), k \in 1..Len(labels) :
        normalizeHeader(row[i]) = normalizeHeader(labels[k])

\* C21: a row read while the sheet's header is still searched for, with a cell
\* that is an accepted vehicle label and a cell that is an accepted report-date
\* label, is taken as the header row
C21_HeaderAccepted ==
    Scanning =>
        \A s \in 1..Len(workbook) : \A sh \in {SheetOf(s)} :
        \A i \in 1..Len(workbook[s]) :
            (trace[s][i] \in {"searching", "header"}
                /\ HasLabel(sh.rows[i], VEHICLE_LABELS) /\ HasLabel(sh.rows[i], DATE_LABELS))
            => trace[s][i] = "header"

\* the sheet being scanned has read no context row yet
NoContextRowYet == \A i \in 1..Len(trace[Len(trace)]) : trace[Len(trace)][i] # "context"

\* C22: each sheet starts with no header, no column mapping and no carry-forward
\* attributes: while the sheet being scanned has read no context row its
\* context is empty, while it has found no header it has no mapping and has
\* emitted nothing, and the mapping of every sheet is the one of its own header row
C22_ResetPerSheet ==
    wpc = "scan" =>
        /\ NoContextRowYet => context = NoContext
        /\ \A s \in 1..Len(workbook) : \A sh \in {SheetOf(s)} :
              /\ sh.hp = 0 =>
                    /\ sh.cols = NoColumns
                    /\ \A i \in 1..Len(trace[s]) : trace[s][i] = "searching"
                    /\ \A em \in {EmittedNow} : \A k \in 1..Len(em) : em[k].sheet # s
              /\ sh.hp > 0 =>
                    /\ trace[s][sh.hp] = "header"
                    /\ sh.cols = columnIndexOf(sh.rows[sh.hp])
                    /\ \A em \in {EmittedNow} : \A k \in 1..Len(em) :
                          em[k].sheet = s => em[k].row > sh.hp
        /\ (headerRow = <<>>) = (headerIndex[Len(workbook)] = -1)

\* the first sheet has a header and a context row; the second sheet has no
\* header and its data row with blank cells emits nothing
C22_Witness ==
    /\ wpc = "scan"
    /\ workbook = << <<HeaderRow1, ContextRow1>>, <<DataRowInherit>> >>
    /\ trace = << <<"header", "context">>, <<"searching">> >>
    /\ context = NoContext
    /\ headerRow = <<>>
    /\ records = <<>>
    /\ allRecords = <<>>

\* a step that reads one more row of the sheet being scanned
ReadsRow == wpc = "scan" /\ wpc' = "scan" /\ Len(workbook') = Len(workbook)

\* the row such a step reads, cells trimmed
RowRead == trimRow(workbook'[Len(workbook)][Len(workbook'[Len(workbook)])])

\* C24: within a sheet the scan goes from Searching to Reading at most once and
\* never back: while no header is known no row emits a record, once it is
\* known no row changes the header position or the column mapping, and a
\* later row whose date cell is the date label emits no record
C24_SearchThenRead ==
    [][ReadsRow =>
          /\ headerRow = <<>> => (records = <<>> /\ records' = <<>>)
          /\ headerRow # <<>> =>
                /\ headerRow' = headerRow
                /\ headerIndex' = headerIndex
                /\ columnIndex' = columnIndex
                /\ normalizeHeader(getCell(RowRead, columnIndex[Len(workbook)].reportDate))
                       = <<"r", "e", "p", "o", "r", "t", "d", "a", "t", "e">>
                     => records' = records
          /\ Cardinality({i \in 1..Len(trace'[Len(workbook)]) : trace'[Len(workbook)][i] = "header"}) <= 1
      ]_vars

C24_Witness ==
    /\ wpc = "scan"
    /\ workbook = << <<HeaderRow1, HeaderRow1, DataRowOwn>> >>
    /\ trace = << <<"header", "repeatedHeader", "emit">> >>
    /\ headerIndex = <<0>>
    /\ columnIndex = <<columnIndexOf(HeaderRow1)>>
    /\ Len(records) = 1

\* the row read is a context row: a header is known, the row is not blank, its
\* date cell is not the date label and holds a range
ContextRowRead ==
    /\ headerRow # <<>>
    /\ ~isBlankRow(RowRead)
    /\ \A cell \in {getCell(RowRead, columnIndex[Len(workbook)].reportDate)} :
          /\ normalizeHeader(cell) # <<"r", "e", "p", "o", "r", "t", "d", "a", "t", "e">>
          /\ includes(cell, <<" ", "-", " ">>)

\* C25: the carry-forward attributes change only when a context row is read,
\* which replaces all four with that row's cells, blank or not; every other
\* row (data, blank, repeated header, dropped) leaves them as they were
C25_ContextFrame ==
    [][ReadsRow =>
          IF ContextRowRead
          THEN \A cols \in {columnIndex[Len(workbook)]} :
                 /\ context'.captured
                 /\ context'.vehicleNo = getCell(RowRead, cols.vehicle)
                 /\ context'.area = getCell(RowRead, cols.area)
                 /\ context'.tankerType = getCell(RowRead, cols.tankerType)
                 /\ context'.transporterName = getCell(RowRead, cols.transporter)
          ELSE context' = context
      ]_vars

C25_Witness ==
    /\ wpc = "scan"
    /\ workbook = << <<HeaderRow1, ContextRow1, ContextRow2>> >>
    /\ trace = << <<"header", "context", "context">> >>
    /\ context.vehicleNo = <<"U", "P", "3", "C">>
    /\ context.area = <<>>
    /\ context.tankerType = <<>>
    /\ context.transporterName = <<"Z", "e", "d">>

\* the update a PATCH is about to issue gives its record a (vehicleNo,
\* reportDate) pair that another record holds
PatchCollides ==
    /\ ppc = "update"
    /\ \E r \in reports : r.id = pId
    /\ \E r \in reports : r.id # pId /\ r.vehicleNo = pData.vehicleNo /\ r.reportDate = pData.reportDate

\* C27: a PATCH that would give a record the (vehicleNo, reportDate) pair of
\* another record is answered with the conflict status 409 and leaves every
\* stored record as it was
C27_PatchConflict ==
    [][(PatchCollides /\ ppc' = "idle") => (lastStatus' = 409 /\ reports' = reports)]_vars

C27_Witness ==
    /\ ppc = "idle"
    /\ lastStatus = 409
    /\ Cardinality(reports) = 2
    /\ \E a, b \in reports :
          /\ a.vehicleNo = VEHICLE_A
          /\ b.vehicleNo = VEHICLE_B
          /\ a.reportDate = b.reportDate

\* C28: after any sequence of store operations (spreadsheet upload, JSON batch,
\* manual create, PATCH) every stored record has a vehicleNo that is not empty
\* and a reportDate of the form DD-MM-YYYY
C28_StoredRecordsValid ==
    \A r \in reports : r.vehicleNo # <<>> /\ IsDDMMYYYY(r.reportDate)

RecordFields ==
    {"vehicleNo", "area", "tankerType", "transporterName", "reportDate", "tripDistanceKm", "tripCount"}

\* C30: a PATCH whose record omits a field leaves the stored value of that
\* field as it was, for each of the seven fields: the update data the handler
\* builds has the stored value in every field the record omits, and the update
\* writes that data to the record and touches no other record
C30_PatchFrame ==
    [][/\ (ppc = "idle" /\ ppc' = "update") =>
            \A existing \in {r \in reports : r.id = pId'} :
            \A record \in {p \in PatchRecords : updateData(p, existing) = pData'} :
            \A field \in RecordFields :
                record[field] = Null => pData'[field] = existing[field]
       /\ (ppc = "update" /\ ppc' = "idle" /\ lastStatus' = 200) =>
            /\ \A r \in reports : r.id # pId => r \in reports'
            /\ \E r \in reports' :
                  /\ r.id = pId
                  /\ \A field \in RecordFields : r[field] = pData[field]
      ]_vars

(***************************************************************************)
(* Claims about the selection of a report's records                        *)
(***************************************************************************)
\* a date as the number yyyymmdd, from the year, month and day texts
DateKey(year, month, day) == DigitsToNat(year) * 10000 + DigitsToNat(month) * 100 + DigitsToNat(day)

\* the calendar date of a stored DD-MM-YYYY text and of a request's YYYY-MM-DD text
StoredDateKey(text) == DateKey(SubSeq(text, 7, 10), SubSeq(text, 4, 5), SubSeq(text, 1, 2))

RequestDateKey(text) == DateKey(SubSeq(text, 1, 4), SubSeq(text, 6, 7), SubSeq(text, 9, 10))

\* the record is of one of the months "YYYY-MM"
InMonths(report, months) ==
    \E i \in 1..Len(months) :
        /\ SubSeq(report.reportDate, 7, 10) = SubSeq(months[i], 1, 4)
        /\ SubSeq(report.reportDate, 4, 5) = SubSeq(months[i], 6, 7)

ShouldInclude(report, request) ==
    /\ request.vehicles # <<>> => \E i \in 1..Len(request.vehicles) : report.vehicleNo = request.vehicles[i]
    /\ request.area # Null => report.area = request.area
    /\ request.months # <<>> => InMonths(report, request.months)
    /\ RequestDateKey(request.dateFrom) <= StoredDateKey(report.reportDate)
    /\ StoredDateKey(report.reportDate) <= RequestDateKey(request.dateTo)

\* C29: a stored record is among the rows of the generated report exactly when
\* it matches the vehicle, area and month filters and its date, as a calendar
\* date, lies in dateFrom..dateTo, both ends included
C29_SelectedByCalendarDate ==
    fpc = "selected" =>
        \A r \in ftable : (\E k \in 1..Len(frows) : frows[k] = r) <=> ShouldInclude(r, freq)

\* the codes of the PdfGeneration table
Codes(generations) == {generations[k].verificationCode : k \in 1..Len(generations)}

\* the summary of a row list as the verify route words it
SummaryAtGeneration(rows) ==
    CHOOSE answer \in
        {[vehicleReports      |-> summary.vehicleReports,
          totalDistance       |-> summary.totalDistance,
          totalTrips          |-> summary.totalTrips,
          totalVehicleReports |-> Len(summary.vehicleReports)] :
            summary \in {buildSummary(rows)}} : TRUE

C1_UniqueKey ==
    \A r1 \in reports : \A r2 \in reports :
        (r1.vehicleNo = r2.vehicleNo /\ r1.reportDate = r2.reportDate) => r1 = r2

\* a PATCH that would have moved one of two stored records onto the other's key
\* was answered 409
C1_Witness ==
    /\ lastStatus = 409
    /\ Cardinality(reports) = 2
    /\ Cardinality({r.vehicleNo : r \in reports}) = 2

SameKey(a, b) == a.vehicleNo = b.vehicleNo /\ a.reportDate = b.reportDate

\* no row upserted after row k has its key
LastOfKey(k) == \A i \in (k + 1)..upDone : ~SameKey(upRows[i], upRows[k])

\* exactly one record is stored for the key of row k, and it has the row's values
RowStored(k) ==
    \A row \in {upRows[k]} :
        /\ Cardinality({r \in reports : SameKey(r, row)}) = 1
        /\ \A r \in reports :
             SameKey(r, row) =>
                 /\ r.area = row.area
                 /\ r.tankerType = row.tankerType
                 /\ r.transporterName = row.transporterName
                 /\ r.tripDistanceKm = row.tripDistanceKm
                 /\ r.tripCount = row.tripCount

\* the first row of the batch committed last
LatestBatchStart == (((upDone - 1) \div UPSERT_BATCH_SIZE) * UPSERT_BATCH_SIZE) + 1

\* C2: once persistRows has committed a batch, every key of that batch has exactly
\* one record, holding the values of the last row with that key upserted so far;
\* and as long as no other request has written since the upload began, the same
\* is true of every key of the earlier batches
C2_LastRowWins ==
    upc \in {"rest", "refresh"} =>
        \A k \in 1..upDone :
            (/\ LastOfKey(k)
             /\ \/ ~dirtyUpload
                \/ ~dirtyBatch /\ k >= LatestBatchStart)
            => RowStored(k)

\* an upload of one vehicle and date over two batches, onto a record that an
\* earlier request had stored: the record holds the values of row 51
C2_Witness ==
    /\ upc = "refresh"
    /\ upDone = UPSERT_BATCH_SIZE + 1
    /\ ~dirtyUpload
    /\ upCode = 2
    /\ \E sn \in snapshots : sn.snapshotCode = 1
    /\ \A k \in 1..upDone : upRows[k].vehicleNo = VEHICLE_A
    /\ upRows[1].transporterName # upRows[upDone].transporterName
    /\ \E r \in reports :
         /\ r.id = 1
         /\ r.vehicleNo = VEHICLE_A
         /\ r.snapshotCode = 2
         /\ r.transporterName = <<"Z", "e", "d">>
         /\ r.tripCount = 0

====
